---------------------------- MODULE Spec2Model ----------------------------
(***************************************************************************)
(* Model of the OTC pool (src/OtcPriceSimulator/otc_pool.py, class         *)
(* OTCPool): the id index `offers`, the active and completed id lists,     *)
(* the id counter and the non-reentrant threading.Lock that every method   *)
(* takes.                                                                  *)
(*                                                                         *)
(* Quantities are integers in hundredths of SOL (150 is 1.5 SOL), prices   *)
(* integers in cents of USDC (9900 is 99.00 USDC): every price of the      *)
(* model is even, so the midpoint (pb + ps) / 2 is exact.                  *)
(*                                                                         *)
(* A method whose whole body runs under `with self.lock` is one action,    *)
(* taken when the lock is free. simulate_matching and get_pool_stats take  *)
(* the lock and then call a method that takes the same lock again: they    *)
(* are split at that call.                                                 *)
(*                                                                         *)
(* With it, the price monitor (src/OtcPriceSimulator/price_monitor.py,     *)
(* class PriceMonitor): start_monitoring and stop_monitoring line by line, *)
(* the threads they create for the background loop, the stop event, the    *)
(* price the loop publishes and its scan of the pool; and the arbitrage    *)
(* scores of analytics_engine.py and of the scanner of app.py.             *)
(*                                                                         *)
(* Percentages are integers in units of 0.0001 %, scores in units of       *)
(* 0.0001 point; the spread of the monitor's scan is an exact fraction.    *)
(*                                                                         *)
(* Spec is the pool under calls of two threads; LiveSpec is Spec with each *)
(* thread scheduled fairly; ReadSpec is a pool with two offers, a thread   *)
(* that reads the dicts get_active_offers returned and execute_match taken *)
(* line by line; ScanSpec is that pool under the monitor's scan and        *)
(* cancel_offer. MonSpec is the monitor under one session's calls and      *)
(* force_price_update; LoopSpec is the monitor without force_price_update, *)
(* scheduled fairly; LifeSpec adds simulate_matching to it; CycleSpec runs *)
(* the loop through MaxCycles cycles; SessionsSpec has two sessions        *)
(* calling start_ and stop_monitoring at once. ScoreSpec computes the      *)
(* scores. PositiveSpec is Spec with quantities > 0 only.                  *)
(***************************************************************************)
EXTENDS Integers, Sequences, FiniteSets, TLC

VARIABLES
    offers,            \* self.offers: id -> offer dict
    active_offers,     \* self.active_offers: list of ids
    completed_offers,  \* self.completed_offers: list of ids
    next_id,           \* self.next_id
    lock,              \* self.lock: the thread holding it, or NoThread
    pc,                \* per thread: "idle", or the line it is at in a method
    frame,             \* per thread: the locals of the method it is inside
    last,              \* the call entered last: name, arguments, result
    ncalls,            \* number of calls entered
    issued,            \* the ids add_offer has returned, in order of return
    cleared,           \* whether clear_pool has been called
    last_price,        \* PriceMonitor.last_price
    stop_event,        \* PriceMonitor.stop_event: whether the event is set
    monitoring_thread, \* PriceMonitor.monitoring_thread: a thread, or 0 (None)
    loop,              \* per thread created for _monitor_loop: line and locals
    fg,                \* the caller inside force_price_update: line and locals
    market_cycle_count,\* PriceMonitor._market_cycle_count (0: attribute not set)
    fetches,           \* the fetches made so far: count and outcome
    polling_interval,  \* PriceMonitor.polling_interval, in seconds
    caller,            \* per session: its line in start_/stop_monitoring, locals
    mcalls,            \* the start_/stop_monitoring calls that have returned
    scoring            \* the last two arbitrage scores computed, with inputs

vars == <<offers, active_offers, completed_offers, next_id, lock, pc, frame,
          last, ncalls, issued, cleared,
          last_price, stop_event, monitoring_thread, loop, fg,
          market_cycle_count, fetches, polling_interval, caller, mcalls,
          scoring>>

\* the state of the pool and of its callers
pool == <<offers, active_offers, completed_offers, next_id, lock, pc, frame,
          last, ncalls, issued, cleared>>

\* the state of the monitor
monitor == <<last_price, stop_event, monitoring_thread, loop, fg,
             market_cycle_count, fetches, polling_interval, caller, mcalls>>

book == <<offers, active_offers, completed_offers, next_id>>

----------------------------------------------------------------------------
(* Bounds of the model *)

\* calls made in one run
MaxCalls == 3
\* add_offer calls in one run
MaxAdds == 2
\* calls made on the pool of ReadSpec
MaxReadCalls == 2
\* fetches of the reference price in one run of MonSpec
MaxFetches == 5
\* threads created by start_monitoring in one run of MonSpec
MaxStarts == 2
\* cycles of the loop in one run of CycleSpec
MaxCycles == 10

Threads == {"t1", "t2"}
NoThread == "none"

\* arguments the callers pass
OfferTypeArgs == {"BUY", "sell"}
AmountArgs == {0, 150, 200}
PriceArgs == {9900, 10100}
MatchAmountArgs == {-50, 50, 150, 200}
MatchPriceArgs == {10000}
IdArgs == 1..(MaxAdds + 1)

\* the reference prices a fetch can return, in cents
FetchPrices == {9900, 10100}

\* the threads start_monitoring creates, in the order of their creation
LoopThreads == 1..MaxStarts
\* the sessions of the app: each runs its script in a thread of its own
Sessions == {"s1", "s2"}
\* the intervals the slider of app.py line 611 passes (5 to 60 seconds)
PollingArgs == {15, 60}

NoFrame == [op |-> "none"]
NoCall == [op |-> "none", args |-> <<>>, ret |-> "None", id |-> 0, list |-> <<>>]

----------------------------------------------------------------------------
(* Python helpers *)

\* str.upper() on the offer types that occur
Upper(s) ==
    CASE s = "buy" -> "BUY"
      [] s = "sell" -> "SELL"
      [] OTHER -> s

\* abs(x), max(a, b)
Abs(x) == IF x < 0 THEN -x ELSE x
Max(a, b) == IF a >= b THEN a ELSE b

\* x in list
Contains(seq, x) == \E i \in 1..Len(seq) : seq[i] = x

\* list.remove(x): drops the first occurrence (the caller checks Contains:
\* Python raises ValueError when there is none)
Remove(seq, x) ==
    LET i == CHOOSE k \in 1..Len(seq) :
                 seq[k] = x /\ \A j \in 1..(k - 1) : seq[j] # x
    IN  SubSeq(seq, 1, i - 1) \o SubSeq(seq, i + 1, Len(seq))

\* dict[key] = value
Put(d, k, v) == [x \in (DOMAIN d) \cup {k} |-> IF x = k THEN v ELSE d[x]]

----------------------------------------------------------------------------
(* The call entered last and what it returned: `ret` is "running" until   *)
(* the call returns, then "True", "False", "None", "id" (add_offer: the id *)
(* is in `id`), "list" (a read: the ids of the offer dicts it returned are *)
(* in `list`) or the name of the exception it raised. Every method takes   *)
(* the lock first, so no call is entered while another one is running.     *)

Enter(op, args) ==
    /\ last' = [op |-> op, args |-> args, ret |-> "running", id |-> 0, list |-> <<>>]
    /\ ncalls' = ncalls + 1

\* a call that is entered and returns in one step
Return(op, args, ret, id, list) ==
    /\ last' = [op |-> op, args |-> args, ret |-> ret, id |-> id, list |-> list]
    /\ ncalls' = ncalls + 1

\* the running call returns
Leave(ret, list) ==
    /\ last' = [last EXCEPT !.ret = ret, !.list = list]
    /\ UNCHANGED ncalls

\* a thread outside every pool method may start a call
CanCall(t) == pc[t] = "idle" /\ ncalls < MaxCalls

\* `with self.lock:` is entered only while no thread holds the lock
LockFree == lock = NoThread

\* OTCPool.__init__
PoolInit ==
    /\ offers = <<>>
    /\ active_offers = <<>>
    /\ completed_offers = <<>>
    /\ next_id = 1
    /\ lock = NoThread
    /\ pc = [t \in Threads |-> "idle"]
    /\ frame = [t \in Threads |-> NoFrame]
    /\ last = NoCall
    /\ ncalls = 0
    /\ issued = <<>>
    /\ cleared = FALSE

\* an Optional[float] is a sequence: <<p>>, or <<>> for Python's None
None == <<>>

\* no caller is in force_price_update
NoLoop == [pc |-> "none", price_data |-> None]

\* a thread that has not been created
NoThreadYet == [pc |-> "none", price_data |-> None, timeout |-> 0]

\* a session outside start_monitoring and stop_monitoring
NoCaller == [pc |-> "idle", polling_interval |-> 0, thread |-> 0, after_stop |-> FALSE]

\* no score has been computed
NoScore == [by |-> "none", offer_type |-> "BUY", volume |-> 0, price_impact |-> 0,
            net_spread |-> 0, score |-> 0]

\* AnalyticsEngine keeps no state of its own
AnalyticsInit == scoring = [prev |-> NoScore, cur |-> NoScore]

\* PriceMonitor.__init__
MonitorInit ==
    /\ last_price = None
    /\ stop_event = FALSE
    /\ monitoring_thread = 0
    /\ loop = [m \in LoopThreads |-> NoThreadYet]
    /\ fg = NoLoop
    /\ market_cycle_count = 0
    /\ fetches = [n |-> 0, good |-> None, fails |-> 0, forced |-> FALSE,
                cycles |-> 0]
    /\ polling_interval = 15
    /\ caller = [c \in Sessions |-> NoCaller]
    /\ mcalls = [last |-> "none", after_stop |-> FALSE, stopped |-> FALSE,
                 overlapped |-> FALSE]

\* init_components of app.py: one pool and one monitor on it
Init == PoolInit /\ MonitorInit /\ AnalyticsInit

----------------------------------------------------------------------------
(* add_offer *)

\* the offer dict of lines 35-45 (user_id has its default of line 18, which
\* is what app.py passes; the two time stamps are left out)
new_offer(offer_id, offer_type, sol_amount, price_per_sol) ==
    [id |-> offer_id,
     type |-> Upper(offer_type),
     sol_amount |-> sol_amount,
     price_per_sol |-> price_per_sol,
     total_usdc |-> sol_amount * price_per_sol,
     user_id |-> "anonymous",
     status |-> "ACTIVE"]

alloc_next_id_stuck == next_id
\* line 33: self.next_id += 1
alloc_next_id == next_id + 1

add_offer(t, offer_type, sol_amount, price_per_sol) ==
    /\ CanCall(t)
    /\ LockFree
    /\ Len(issued) < MaxAdds
    /\ LET offer_id == next_id
       IN  /\ next_id' = alloc_next_id
           /\ offers' = Put(offers, offer_id,
                            new_offer(offer_id, offer_type, sol_amount, price_per_sol))
           /\ active_offers' = Append(active_offers, offer_id)
           /\ issued' = Append(issued, offer_id)
           /\ Return("add_offer", <<offer_type, sol_amount, price_per_sol>>,
                     "id", offer_id, <<>>)
    /\ UNCHANGED <<completed_offers, lock, pc, frame, cleared>>
    /\ UNCHANGED monitor
    /\ UNCHANGED scoring

----------------------------------------------------------------------------
(* cancel_offer *)

\* line 63
cancel_guard(offer_id) ==
    Contains(active_offers, offer_id) /\ offer_id \in DOMAIN offers

cancel_status_unchanged(offer_id) == offers
\* line 64
cancel_status(offer_id) == [offers EXCEPT ![offer_id].status = "CANCELLED"]

cancel_remove_skipped(offer_id) == active_offers
cancel_remove_head(offer_id) == Tail(active_offers)
\* line 65
cancel_remove(offer_id) == Remove(active_offers, offer_id)

cancel_offer(t, offer_id) ==
    /\ CanCall(t)
    /\ LockFree
    /\ IF cancel_guard(offer_id)
       THEN /\ offers' = cancel_status(offer_id)
            /\ active_offers' = cancel_remove(offer_id)
            /\ Return("cancel_offer", <<offer_id>>, "True", 0, <<>>)
       ELSE /\ UNCHANGED <<offers, active_offers>>
            /\ Return("cancel_offer", <<offer_id>>, "False", 0, <<>>)
    /\ UNCHANGED <<completed_offers, next_id, lock, pc, frame, issued, cleared>>
    /\ UNCHANGED monitor
    /\ UNCHANGED scoring

----------------------------------------------------------------------------
(* clear_pool *)

clear_pool(t) ==
    /\ CanCall(t)
    /\ LockFree
    /\ offers' = <<>>
    /\ active_offers' = <<>>
    /\ completed_offers' = <<>>
    /\ next_id' = 1
    /\ cleared' = TRUE
    /\ Return("clear_pool", <<>>, "None", 0, <<>>)
    /\ UNCHANGED <<lock, pc, frame, issued>>
    /\ UNCHANGED monitor
    /\ UNCHANGED scoring

----------------------------------------------------------------------------
(* The reads. Each returns a list of the offer dicts themselves (not       *)
(* copies); the model keeps the ids of the dicts returned.                 *)

\* lines 72-73
active_list == SelectSeq(active_offers, LAMBDA i : i \in DOMAIN offers)

\* what get_active_offers returns on the current book: the offer dicts, in
\* the order of active_offers
ActiveView == [k \in 1..Len(active_list) |-> offers[active_list[k]]]

\* lines 83-84
typed_list(offer_type) ==
    SelectSeq(active_offers,
              LAMBDA i : i \in DOMAIN offers /\ offers[i].type = Upper(offer_type))

\* list.sort(key = price, reverse): Python's sort is stable, and with
\* reverse = True it keeps the original order of equal keys too. The place of
\* element i of `ids` in the sorted list:
SortRank(ids, i, reverse) ==
    Cardinality({j \in 1..Len(ids) :
        \/ IF reverse
           THEN offers[ids[j]].price_per_sol > offers[ids[i]].price_per_sol
           ELSE offers[ids[j]].price_per_sol < offers[ids[i]].price_per_sol
        \/ offers[ids[j]].price_per_sol = offers[ids[i]].price_per_sol /\ j < i}) + 1

SortByPrice(ids, reverse) ==
    [r \in 1..Len(ids) |->
        ids[CHOOSE i \in 1..Len(ids) : SortRank(ids, i, reverse) = r]]

Min(a, b) == IF a <= b THEN a ELSE b

\* lines 113-123: one match dict
match_of(b, s) ==
    [buy_id |-> offers[b].id,
     sell_id |-> offers[s].id,
     match_amount |-> Min(offers[b].sol_amount, offers[s].sol_amount),
     match_price |-> (offers[b].price_per_sol + offers[s].price_per_sol) \div 2,
     buy_price |-> offers[b].price_per_sol,
     sell_price |-> offers[s].price_per_sol,
     spread |-> offers[b].price_per_sol - offers[s].price_per_sol,
     total_usdc |-> Min(offers[b].sol_amount, offers[s].sol_amount)
                    * ((offers[b].price_per_sol + offers[s].price_per_sol) \div 2)]

\* lines 104-125: the sells that cross one buy, in the order of the sorted sells
RECURSIVE matches_of_buy(_, _)
matches_of_buy(b, sells) ==
    IF sells = <<>> THEN <<>>
    ELSE (IF offers[b].price_per_sol >= offers[Head(sells)].price_per_sol
          THEN <<match_of(b, Head(sells))>> ELSE <<>>)
         \o matches_of_buy(b, Tail(sells))

RECURSIVE matches_loop(_, _)
matches_loop(buys, sells) ==
    IF buys = <<>> THEN <<>>
    ELSE matches_of_buy(Head(buys), sells) \o matches_loop(Tail(buys), sells)

\* lines 97-127, from the two lists the calls of lines 94-95 returned
matches_from(buy_offers, sell_offers) ==
    matches_loop(SortByPrice(buy_offers, TRUE), SortByPrice(sell_offers, FALSE))

(* get_offers_by_type, called by a caller of the pool (pc = "idle") or by  *)
(* simulate_matching at line 94 (pc = "sm_94") and line 95 (pc =           *)
(* "sm_95"). Its own `with self.lock` (line 82) needs the lock free in     *)
(* every case; on leaving the block it releases the lock. After the call   *)
(* of line 95 simulate_matching computes the matches and leaves its own    *)
(* `with` block, which releases a lock that is no longer held:             *)
(* threading.Lock.release raises RuntimeError.                             *)
get_offers_by_type(t, offer_type) ==
    /\ LockFree
    /\ pc[t] \in {"idle", "sm_94", "sm_95"}
    /\ pc[t] = "idle" => ncalls < MaxCalls
    /\ pc[t] = "sm_94" => offer_type = "BUY"
    /\ pc[t] = "sm_95" => offer_type = "SELL"
    /\ CASE pc[t] = "idle" ->
              /\ Return("get_offers_by_type", <<offer_type>>, "list", 0,
                        typed_list(offer_type))
              /\ UNCHANGED <<pc, frame>>
         [] pc[t] = "sm_94" ->
              /\ pc' = [pc EXCEPT ![t] = "sm_95"]
              /\ frame' = [frame EXCEPT ![t] =
                             [op |-> "simulate_matching",
                              buy_offers |-> typed_list(offer_type)]]
              /\ UNCHANGED <<last, ncalls>>
         [] pc[t] = "sm_95" ->
              /\ pc' = [pc EXCEPT ![t] = "idle"]
              /\ frame' = [frame EXCEPT ![t] = NoFrame]
              /\ Leave("RuntimeError",
                       matches_from(frame[t].buy_offers, typed_list(offer_type)))
    /\ lock' = NoThread
    /\ UNCHANGED <<offers, active_offers, completed_offers, next_id, issued, cleared>>
    /\ UNCHANGED monitor
    /\ UNCHANGED scoring

\* lines 175-189, from the list the call of line 174 returned
stats_from(active) ==
    LET buys == SelectSeq(active, LAMBDA i : offers[i].type = "BUY")
        sells == SelectSeq(active, LAMBDA i : offers[i].type = "SELL")
    IN  [total_active_offers |-> Len(active),
         buy_offers_count |-> Len(buys),
         sell_offers_count |-> Len(sells),
         completed_offers_count |-> Len(completed_offers)]

(* get_active_offers, called by a caller of the pool or by get_pool_stats  *)
(* at line 174 (pc = "ps_174"); line 71 needs the lock free in both cases. *)
get_active_offers(t) ==
    /\ LockFree
    /\ pc[t] \in {"idle", "ps_174"}
    /\ pc[t] = "idle" => ncalls < MaxCalls
    /\ IF pc[t] = "idle"
       THEN /\ Return("get_active_offers", <<>>, "list", 0, active_list)
            /\ UNCHANGED <<pc, frame>>
       ELSE /\ pc' = [pc EXCEPT ![t] = "idle"]
            /\ frame' = [frame EXCEPT ![t] = NoFrame]
            /\ Leave("RuntimeError", <<stats_from(active_list)>>)
    /\ lock' = NoThread
    /\ UNCHANGED <<offers, active_offers, completed_offers, next_id, issued, cleared>>
    /\ UNCHANGED monitor
    /\ UNCHANGED scoring

\* line 93: simulate_matching enters `with self.lock`; line 94 is next
simulate_matching(t) ==
    /\ CanCall(t)
    /\ LockFree
    /\ lock' = t
    /\ pc' = [pc EXCEPT ![t] = "sm_94"]
    /\ frame' = [frame EXCEPT ![t] = [op |-> "simulate_matching", buy_offers |-> <<>>]]
    /\ Enter("simulate_matching", <<>>)
    /\ UNCHANGED <<book, issued, cleared>>
    /\ UNCHANGED monitor
    /\ UNCHANGED scoring

\* line 173: get_pool_stats enters `with self.lock`; line 174 is next
get_pool_stats(t) ==
    /\ CanCall(t)
    /\ LockFree
    /\ lock' = t
    /\ pc' = [pc EXCEPT ![t] = "ps_174"]
    /\ frame' = [frame EXCEPT ![t] = [op |-> "get_pool_stats"]]
    /\ Enter("get_pool_stats", <<>>)
    /\ UNCHANGED <<book, issued, cleared>>
    /\ UNCHANGED monitor
    /\ UNCHANGED scoring

----------------------------------------------------------------------------
(* execute_match. Its whole body runs under `with self.lock`, and every    *)
(* other method of the pool takes the same lock first, so between the      *)
(* methods of the pool the call is one step. The body is the sequence of   *)
(* its statements, each an operator on the book record B.                  *)

execute_guard_known(buy_id, sell_id) ==
    buy_id \in DOMAIN offers /\ sell_id \in DOMAIN offers
\* lines 144-145 and 150-151: the call goes on to line 155
execute_guard(buy_id, sell_id) ==
    /\ buy_id \in DOMAIN offers
    /\ sell_id \in DOMAIN offers
    /\ offers[buy_id].status = "ACTIVE"
    /\ offers[sell_id].status = "ACTIVE"
    /\ Contains(active_offers, buy_id)
    /\ Contains(active_offers, sell_id)

\* a decrement that takes match_amount from every offer of the book
decrement_every_offer(B, offer_id, match_amount) ==
    [B EXCEPT !.offers = [i \in DOMAIN B.offers |->
                            [B.offers[i] EXCEPT !.sol_amount = @ - match_amount]]]
\* lines 155 and 156: offer['sol_amount'] -= match_amount (the two names are
\* the same dict when buy_id = sell_id)
decrement(B, offer_id, match_amount) ==
    [B EXCEPT !.offers[offer_id].sol_amount = @ - match_amount]

\* a test that takes an offer of quantity 0 for one still open
filled_below_zero(B, offer_id) == B.offers[offer_id].sol_amount < 0
\* lines 159 and 164: the offer is fully filled
filled(B, offer_id) == B.offers[offer_id].sol_amount <= 0

\* a completion that leaves the id in active_offers
complete_kept_active(B, offer_id) ==
    [offers |-> [B.offers EXCEPT ![offer_id].status = "COMPLETED"],
     active |-> B.active,
     completed |-> Append(B.completed, offer_id),
     raised |-> FALSE]
\* lines 160-162 and 165-167: the status is set first; list.remove raises
\* ValueError when the id is not in active_offers, and nothing after it runs
complete(B, offer_id) ==
    IF Contains(B.active, offer_id)
    THEN [offers |-> [B.offers EXCEPT ![offer_id].status = "COMPLETED"],
          active |-> Remove(B.active, offer_id),
          completed |-> Append(B.completed, offer_id),
          raised |-> FALSE]
    ELSE [offers |-> [B.offers EXCEPT ![offer_id].status = "COMPLETED"],
          active |-> B.active,
          completed |-> B.completed,
          raised |-> TRUE]

\* lines 155-167
execute_lines(B, buy_id, sell_id, match_amount) ==
    LET B155 == decrement(B, buy_id, match_amount)
        B156 == decrement(B155, sell_id, match_amount)
        B159 == IF filled(B156, buy_id) THEN complete(B156, buy_id) ELSE B156
    IN  IF B159.raised THEN B159
        ELSE IF filled(B159, sell_id) THEN complete(B159, sell_id) ELSE B159

\* lines 143-169; an exception leaves the `with` block, which releases the lock
execute_match(t, buy_id, sell_id, match_amount, match_price) ==
    /\ CanCall(t)
    /\ LockFree
    /\ LET args == <<buy_id, sell_id, match_amount, match_price>>
       IN  IF execute_guard(buy_id, sell_id)
           THEN LET B == execute_lines([offers |-> offers,
                                        active |-> active_offers,
                                        completed |-> completed_offers,
                                        raised |-> FALSE],
                                       buy_id, sell_id, match_amount)
                IN  /\ offers' = B.offers
                    /\ active_offers' = B.active
                    /\ completed_offers' = B.completed
                    /\ Return("execute_match", args,
                              IF B.raised THEN "ValueError" ELSE "True", 0, <<>>)
           ELSE /\ UNCHANGED <<offers, active_offers, completed_offers>>
                /\ Return("execute_match", args, "False", 0, <<>>)
    /\ UNCHANGED <<next_id, lock, pc, frame, issued, cleared>>
    /\ UNCHANGED monitor
    /\ UNCHANGED scoring

----------------------------------------------------------------------------

\* what thread t can do next, posting one of the quantities `amounts` and
\* executing one of the quantities `match_amounts`
StepWith(t, amounts, match_amounts) ==
        \/ \E ty \in OfferTypeArgs, a \in amounts, p \in PriceArgs :
               add_offer(t, ty, a, p)
        \/ \E i \in IdArgs : cancel_offer(t, i)
        \/ \E b \in IdArgs, s \in IdArgs, a \in match_amounts, p \in MatchPriceArgs :
               execute_match(t, b, s, a, p)
        \/ get_active_offers(t)
        \/ \E ty \in OfferTypeArgs : get_offers_by_type(t, ty)
        \/ simulate_matching(t)
        \/ get_pool_stats(t)
        \/ clear_pool(t)

\* what thread t can do next
Step(t) == StepWith(t, AmountArgs, MatchAmountArgs)

Next == \E t \in Threads : Step(t)

Spec == Init /\ [][Next]_vars

\* Spec with every thread scheduled again and again: a thread that can take
\* a step (it is not waiting for the lock) eventually takes one
LiveSpec == Spec /\ \A t \in Threads : WF_vars(Step(t))

\* the pool under calls that post and execute quantities > 0 only
PositiveAmountArgs == {a \in AmountArgs : a > 0}
PositiveMatchAmountArgs == {a \in MatchAmountArgs : a > 0}

PositiveNext ==
    \E t \in Threads : StepWith(t, PositiveAmountArgs, PositiveMatchAmountArgs)

PositiveSpec == Init /\ [][PositiveNext]_vars

----------------------------------------------------------------------------
(* ReadSpec: a pool on which two add_offer calls have returned, a thread   *)
(* that calls get_active_offers and then reads the dicts of the list it    *)
(* got, as _check_arbitrage_opportunities and the pages of app.py do, and  *)
(* execute_match taken line by line. The reader holds no lock while it     *)
(* reads: the list holds the dicts of self.offers themselves, so what it   *)
(* reads is what the dict holds at that moment.                            *)

\* the pool after add_offer(ty1, a1, p1) -> 1 and add_offer(ty2, a2, p2) -> 2,
\* both of a quantity > 0; calls are counted from here
ReadInit ==
    /\ \E ty1 \in OfferTypeArgs, ty2 \in OfferTypeArgs,
          a1 \in AmountArgs \ {0}, a2 \in AmountArgs \ {0},
          p1 \in PriceArgs, p2 \in PriceArgs :
          offers = Put(Put(<<>>, 1, new_offer(1, ty1, a1, p1)),
                       2, new_offer(2, ty2, a2, p2))
    /\ active_offers = <<1, 2>>
    /\ completed_offers = <<>>
    /\ next_id = 3
    /\ lock = NoThread
    /\ pc = [t \in Threads |-> "idle"]
    /\ frame = [t \in Threads |-> NoFrame]
    /\ last = NoCall
    /\ ncalls = 0
    /\ issued = <<1, 2>>
    /\ cleared = FALSE
    /\ MonitorInit
    /\ AnalyticsInit

\* a thread outside every method may call the pool of ReadSpec
CanRead(t) == pc[t] = "idle" /\ ncalls < MaxReadCalls

\* the book as the record the statements of execute_match work on
Book == [offers |-> offers, active |-> active_offers,
         completed |-> completed_offers, raised |-> FALSE]

\* the lines of execute_match at which a thread can be
ExecuteLines == {"x_155", "x_156", "x_159", "x_164"}

\* lines 143-152: the lock is taken and the checks are made
execute_match_143(t, buy_id, sell_id, match_amount, match_price) ==
    /\ CanRead(t)
    /\ LockFree
    /\ LET args == <<buy_id, sell_id, match_amount, match_price>>
       IN  IF execute_guard(buy_id, sell_id)
           THEN /\ lock' = t
                /\ pc' = [pc EXCEPT ![t] = "x_155"]
                /\ frame' = [frame EXCEPT ![t] =
                               [op |-> "execute_match", buy_id |-> buy_id,
                                sell_id |-> sell_id, match_amount |-> match_amount,
                                entry |-> Book]]
                /\ Enter("execute_match", args)
           ELSE /\ Return("execute_match", args, "False", 0, <<>>)
                /\ UNCHANGED <<lock, pc, frame>>
    /\ UNCHANGED <<offers, active_offers, completed_offers, next_id, issued, cleared>>
    /\ UNCHANGED monitor
    /\ UNCHANGED scoring

\* line 155: buy_offer['sol_amount'] -= match_amount
execute_match_155(t) ==
    /\ pc[t] = "x_155"
    /\ offers' = decrement(Book, frame[t].buy_id, frame[t].match_amount).offers
    /\ pc' = [pc EXCEPT ![t] = "x_156"]
    /\ UNCHANGED <<active_offers, completed_offers, next_id, lock, frame, last,
                   ncalls, issued, cleared>>
    /\ UNCHANGED monitor
    /\ UNCHANGED scoring

\* line 156: sell_offer['sol_amount'] -= match_amount
execute_match_156(t) ==
    /\ pc[t] = "x_156"
    /\ offers' = decrement(Book, frame[t].sell_id, frame[t].match_amount).offers
    /\ pc' = [pc EXCEPT ![t] = "x_159"]
    /\ UNCHANGED <<active_offers, completed_offers, next_id, lock, frame, last,
                   ncalls, issued, cleared>>
    /\ UNCHANGED monitor
    /\ UNCHANGED scoring

\* lines 159-162: the buy leg is completed when it is filled
execute_match_159(t) ==
    /\ pc[t] = "x_159"
    /\ LET B == IF filled(Book, frame[t].buy_id)
                THEN complete(Book, frame[t].buy_id) ELSE Book
       IN  /\ offers' = B.offers
           /\ active_offers' = B.active
           /\ completed_offers' = B.completed
           /\ IF B.raised
              THEN /\ pc' = [pc EXCEPT ![t] = "idle"]
                   /\ frame' = [frame EXCEPT ![t] = NoFrame]
                   /\ lock' = NoThread
                   /\ Leave("ValueError", <<>>)
              ELSE /\ pc' = [pc EXCEPT ![t] = "x_164"]
                   /\ UNCHANGED <<frame, lock, last, ncalls>>
    /\ UNCHANGED <<next_id, issued, cleared>>
    /\ UNCHANGED monitor
    /\ UNCHANGED scoring

\* lines 164-169: the sell leg is completed when it is filled; the call
\* returns and leaves the `with` block
execute_match_164(t) ==
    /\ pc[t] = "x_164"
    /\ LET B == IF filled(Book, frame[t].sell_id)
                THEN complete(Book, frame[t].sell_id) ELSE Book
       IN  /\ offers' = B.offers
           /\ active_offers' = B.active
           /\ completed_offers' = B.completed
           /\ Leave(IF B.raised THEN "ValueError" ELSE "True", <<>>)
    /\ pc' = [pc EXCEPT ![t] = "idle"]
    /\ frame' = [frame EXCEPT ![t] = NoFrame]
    /\ lock' = NoThread
    /\ UNCHANGED <<next_id, issued, cleared>>
    /\ UNCHANGED monitor
    /\ UNCHANGED scoring

\* the execute_match call in progress, if one is: calls hold the lock, so
\* there is at most one, and its number is ncalls
Executing == {t \in Threads : pc[t] \in ExecuteLines}

\* price_monitor.py lines 119-126 (app.py lines 829-836): the spread in per
\* cent, as the fraction num / den; the prices are in cents and den > 0
calculate_spread_percentage(offer_type, otc_price, jupiter_price) ==
    IF offer_type = "BUY"
    THEN [num |-> (otc_price - jupiter_price) * 100, den |-> jupiter_price]
    ELSE [num |-> (jupiter_price - otc_price) * 100, den |-> jupiter_price]

\* a test that lets a spread of exactly 1.0 pass
significant_from_one(spread_pct) == Abs(spread_pct.num) >= spread_pct.den

\* price_monitor.py line 102: abs(spread_pct) > 1.0
significant(spread_pct) == Abs(spread_pct.num) > spread_pct.den

\* a scan that writes what it has computed into the pool's dict
scanned_rewritten(offer) == [offer EXCEPT !.total_usdc = 0]

\* price_monitor.py lines 96-114: the dict of the pool after the scan has
\* handled it: the scan reads its fields and writes none
scanned(offer) == offer

\* price_monitor.py line 94 (app.py line 680): the reader calls
\* get_active_offers and keeps the list. `active_offers` are the dicts it
\* holds (by id), `returned` what they held when the call returned, `entry`
\* the id index at that moment.
check_arbitrage_94(t, jupiter_price) ==
    /\ CanRead(t)
    /\ LockFree
    /\ pc' = [pc EXCEPT ![t] = "ca_96"]
    /\ frame' = [frame EXCEPT ![t] =
                   [op |-> "_check_arbitrage_opportunities",
                    jupiter_price |-> jupiter_price,
                    active_offers |-> active_list,
                    returned |-> ActiveView,
                    entry |-> offers,
                    k |-> 1,
                    seen |-> <<>>,
                    opportunities |-> <<>>]]
    /\ Return("get_active_offers", <<>>, "list", 0, active_list)
    /\ UNCHANGED <<offers, active_offers, completed_offers, next_id, lock,
                   issued, cleared>>
    /\ UNCHANGED monitor
    /\ UNCHANGED scoring

\* price_monitor.py lines 96-114 (app.py lines 683-691): the reader reads
\* the fields of the next dict of its list, with no lock, and logs an
\* opportunity when the spread is significant; `during` is the number of
\* the execute_match call in progress at that moment (0: none)
check_arbitrage_96(t) ==
    /\ pc[t] = "ca_96"
    /\ IF frame[t].k <= Len(frame[t].active_offers)
       THEN LET offer == offers[frame[t].active_offers[frame[t].k]]
                spread_pct == calculate_spread_percentage(
                                  offer.type, offer.price_per_sol,
                                  frame[t].jupiter_price)
                opportunity == [offer_id |-> offer.id,
                                offer_type |-> offer.type,
                                otc_price |-> offer.price_per_sol,
                                jupiter_price |-> frame[t].jupiter_price,
                                spread_pct |-> spread_pct,
                                sol_amount |-> offer.sol_amount]
            IN  /\ frame' = [frame EXCEPT
                      ![t].seen = Append(@,
                          [offer |-> offer,
                           during |-> IF Executing # {} THEN ncalls ELSE 0]),
                      ![t].opportunities =
                          IF significant(spread_pct)
                          THEN Append(@, opportunity) ELSE @,
                      ![t].k = @ + 1]
                /\ offers' = [offers EXCEPT ![offer.id] = scanned(offer)]
                /\ UNCHANGED pc
       ELSE /\ frame' = [frame EXCEPT ![t] = NoFrame]
            /\ pc' = [pc EXCEPT ![t] = "idle"]
            /\ UNCHANGED offers
    /\ UNCHANGED <<active_offers, completed_offers, next_id, lock, last,
                   ncalls, issued, cleared>>
    /\ UNCHANGED monitor
    /\ UNCHANGED scoring

ReadStep(t) ==
        \/ \E i \in IdArgs : cancel_offer(t, i) /\ ncalls < MaxReadCalls
        \/ \E b \in IdArgs, s \in IdArgs, a \in MatchAmountArgs, p \in MatchPriceArgs :
               execute_match_143(t, b, s, a, p)
        \/ execute_match_155(t)
        \/ execute_match_156(t)
        \/ execute_match_159(t)
        \/ execute_match_164(t)
        \/ check_arbitrage_94(t, 10000)
        \/ check_arbitrage_96(t)

ReadNext == \E t \in Threads : ReadStep(t)

ReadSpec == ReadInit /\ [][ReadNext]_vars

----------------------------------------------------------------------------
(* ScanSpec: the pool of ReadSpec with threads that cancel offers and      *)
(* threads that run the arbitrage scan of the monitor.                     *)

\* the reference prices the scan is called with, in cents
ScanPriceArgs == {10000, 10100}

ScanStep(t) ==
        \/ \E i \in IdArgs : cancel_offer(t, i) /\ ncalls < MaxReadCalls
        \/ \E p \in ScanPriceArgs : check_arbitrage_94(t, p)
        \/ check_arbitrage_96(t)

ScanNext == \E t \in Threads : ScanStep(t)

ScanSpec == ReadInit /\ [][ScanNext]_vars

----------------------------------------------------------------------------
(* MonSpec: the price monitor. start_monitoring creates a thread that runs *)
(* _monitor_loop; foreground callers (the sessions of the app, which share *)
(* the one monitor) start and stop it and call force_price_update. A fetch *)
(* of the reference price (jupiter_api.get_sol_usdc_quote) returns a       *)
(* price, or None when it failed, or raises; it takes time, so the fetch   *)
(* and the store of its result are separate steps. `fetches` records the   *)
(* fetches that have returned: how many, the price of the most recent one  *)
(* that succeeded, the failures since, and whether force_price_update made *)
(* one. start_monitoring and stop_monitoring take no lock: each is split   *)
(* where another thread can come in between.                               *)

\* what a fetch can return: the price of the quote, or None
FetchResults == {<<p>> : p \in FetchPrices} \cup {None}

\* a fetch has returned `result` (None also stands for a fetch that raised);
\* `cycle` tells the fetch of a cycle of the loop that returned
Fetched(result, forced, cycle) ==
    fetches' = [n |-> fetches.n + 1,
                good |-> IF result # None THEN result ELSE fetches.good,
                fails |-> IF result # None THEN 0 ELSE fetches.fails + 1,
                forced |-> fetches.forced \/ forced,
                cycles |-> IF cycle THEN fetches.cycles + 1 ELSE fetches.cycles]

\* threading.Thread.is_alive(): the thread has been started and its
\* _monitor_loop has not returned
is_alive(m) == loop[m].pc \notin {"none", "dead"}

\* the Thread objects created so far
Created == {m \in LoopThreads : loop[m].pc # "none"}

\* lines 141-145
is_monitoring_active ==
    /\ monitoring_thread # 0
    /\ is_alive(monitoring_thread)
    /\ ~stop_event

\* a call of start_monitoring or stop_monitoring is entered by session c:
\* it overlaps the calls the other sessions are inside
Overlaps(c) ==
    mcalls.overlapped \/ \E d \in Sessions \ {c} : caller[d].pc # "idle"

\* a test that takes a monitor whose event is set for one that has stopped
already_running_and_active ==
    monitoring_thread # 0 /\ is_alive(monitoring_thread) /\ ~stop_event

\* line 27: self.monitoring_thread and self.monitoring_thread.is_alive()
already_running == monitoring_thread # 0 /\ is_alive(monitoring_thread)

\* lines 27-28: `if ...: return`; otherwise the call goes on to line 30
start_monitoring_27(c, interval) ==
    /\ caller[c].pc = "idle"
    /\ IF already_running
       THEN /\ mcalls' = [mcalls EXCEPT !.last = "start_monitoring",
                                        !.after_stop = mcalls.stopped,
                                        !.overlapped = Overlaps(c)]
            /\ UNCHANGED caller
       ELSE /\ Cardinality(Created)
                 + Cardinality({d \in Sessions : caller[d].pc = "s30"}) < MaxStarts
            /\ caller' = [caller EXCEPT ![c] =
                            [pc |-> "s30", polling_interval |-> interval,
                             thread |-> 0, after_stop |-> mcalls.stopped]]
            /\ mcalls' = [mcalls EXCEPT !.overlapped = Overlaps(c)]
    /\ UNCHANGED <<last_price, stop_event, monitoring_thread, loop, fg,
                   market_cycle_count, fetches, polling_interval>>
    /\ UNCHANGED pool
    /\ UNCHANGED scoring

\* lines 30-33: the interval is stored, the event cleared, a new thread
\* created, stored in monitoring_thread and started
start_monitoring_30(c) ==
    /\ caller[c].pc = "s30"
    /\ LET m == CHOOSE x \in LoopThreads \ Created :
                    \A y \in LoopThreads \ Created : x <= y
       IN  /\ monitoring_thread' = m
           /\ loop' = [loop EXCEPT ![m] =
                         [pc |-> "l43", price_data |-> None, timeout |-> 0]]
    /\ polling_interval' = caller[c].polling_interval
    /\ stop_event' = FALSE
    /\ caller' = [caller EXCEPT ![c] = NoCaller]
    /\ mcalls' = [mcalls EXCEPT !.last = "start_monitoring",
                                !.after_stop = caller[c].after_stop]
    /\ UNCHANGED <<last_price, fg, market_cycle_count, fetches>>
    /\ UNCHANGED pool
    /\ UNCHANGED scoring

\* lines 37-39: with a thread in monitoring_thread the event is set and
\* join(timeout=5) is called on it; with none the call returns
stop_monitoring_37(c) ==
    /\ caller[c].pc = "idle"
    /\ IF monitoring_thread # 0
       THEN /\ stop_event' = TRUE
            /\ caller' = [caller EXCEPT ![c] =
                            [pc |-> "j39", polling_interval |-> 0,
                             thread |-> monitoring_thread,
                             after_stop |-> mcalls.stopped]]
            /\ mcalls' = [mcalls EXCEPT !.overlapped = Overlaps(c)]
       ELSE /\ mcalls' = [mcalls EXCEPT !.last = "stop_monitoring",
                                        !.after_stop = mcalls.stopped,
                                        !.stopped = TRUE,
                                        !.overlapped = Overlaps(c)]
            /\ UNCHANGED <<stop_event, caller>>
    /\ UNCHANGED <<last_price, monitoring_thread, loop, fg, market_cycle_count,
                   fetches, polling_interval>>
    /\ UNCHANGED pool
    /\ UNCHANGED scoring

\* thread m can stay alive for the 5 seconds of a join: it is inside the
\* fetch (timeout=10 of jupiter_api.py line 46), or waiting for the pool's
\* lock, or in a wait that the event does not end
Busy(m) ==
    \/ loop[m].pc \in {"l46", "l71"}
    \/ loop[m].pc = "l61" /\ ~LockFree
    \/ loop[m].pc \in {"l79", "l84"} /\ ~stop_event

\* line 39: join(timeout=5) returns: the thread has ended, or the 5
\* seconds are over
stop_monitoring_39(c) ==
    /\ caller[c].pc = "j39"
    /\ ~is_alive(caller[c].thread) \/ Busy(caller[c].thread)
    /\ caller' = [caller EXCEPT ![c] = NoCaller]
    /\ mcalls' = [mcalls EXCEPT !.last = "stop_monitoring",
                                !.after_stop = caller[c].after_stop,
                                !.stopped = TRUE]
    /\ UNCHANGED <<last_price, stop_event, monitoring_thread, loop, fg,
                   market_cycle_count, fetches, polling_interval>>
    /\ UNCHANGED pool
    /\ UNCHANGED scoring

\* line 43: the loop goes on unless the event is set; then _monitor_loop
\* returns and the thread ends
monitor_loop_43_within(m, budget) ==
    /\ loop[m].pc = "l43"
    /\ IF stop_event
       THEN loop' = [loop EXCEPT ![m].pc = "dead"]
       ELSE /\ fetches.n < budget
            /\ loop' = [loop EXCEPT ![m].pc = "l46"]
    /\ UNCHANGED <<last_price, stop_event, monitoring_thread, fg,
                   market_cycle_count, fetches, polling_interval, caller, mcalls>>
    /\ UNCHANGED pool
    /\ UNCHANGED scoring

\* line 43, in a run of at most MaxFetches fetches
monitor_loop_43(m) == monitor_loop_43_within(m, MaxFetches)

\* line 46: the fetch returns
monitor_loop_46(m, result) ==
    /\ loop[m].pc = "l46"
    /\ loop' = [loop EXCEPT ![m].pc = "l48", ![m].price_data = result]
    /\ Fetched(result, FALSE, TRUE)
    /\ UNCHANGED <<last_price, stop_event, monitoring_thread, fg,
                   market_cycle_count, polling_interval, caller, mcalls>>
    /\ UNCHANGED pool
    /\ UNCHANGED scoring

\* lines 46 and 81-84: the fetch raises, into the handler, which calls
\* stop_event.wait(min(self.polling_interval, 30))
monitor_loop_81(m) ==
    /\ loop[m].pc = "l46"
    /\ loop' = [loop EXCEPT ![m] =
                  [pc |-> "l84", price_data |-> None,
                   timeout |-> Min(polling_interval, 30)]]
    /\ Fetched(None, FALSE, FALSE)
    /\ UNCHANGED <<last_price, stop_event, monitoring_thread, fg,
                   market_cycle_count, polling_interval, caller, mcalls>>
    /\ UNCHANGED pool
    /\ UNCHANGED scoring

\* lines 48-58: a result is published, None is skipped
monitor_loop_48(m) ==
    /\ loop[m].pc = "l48"
    /\ IF loop[m].price_data # None
       THEN /\ last_price' = loop[m].price_data
            /\ loop' = [loop EXCEPT ![m].pc = "l61"]
       ELSE /\ UNCHANGED last_price
            /\ loop' = [loop EXCEPT ![m].pc = "l64"]
    /\ UNCHANGED <<stop_event, monitoring_thread, fg, market_cycle_count,
                   fetches, polling_interval, caller, mcalls>>
    /\ UNCHANGED pool
    /\ UNCHANGED scoring

\* line 61: the scan of lines 86-117; its get_active_offers needs the
\* pool's lock, it changes nothing and catches every exception
monitor_loop_61(m) ==
    /\ loop[m].pc = "l61"
    /\ LockFree
    /\ loop' = [loop EXCEPT ![m].pc = "l64"]
    /\ UNCHANGED <<last_price, stop_event, monitoring_thread, fg,
                   market_cycle_count, fetches, polling_interval, caller, mcalls>>
    /\ UNCHANGED pool
    /\ UNCHANGED scoring

\* a counter that sends every 4th count to the market data
market_due_every_4th(count) == count % 4 = 0
\* line 69: self._market_cycle_count % 5 == 0
market_due(count) == count % 5 = 0

\* lines 64-69 and 79: the cycle counter; at every 5th count the loop goes
\* on to fetch the market data, at the others it calls
\* stop_event.wait(self.polling_interval)
monitor_loop_64(m) ==
    /\ loop[m].pc = "l64"
    /\ market_cycle_count' = market_cycle_count + 1
    /\ IF market_due(market_cycle_count')
       THEN loop' = [loop EXCEPT ![m].pc = "l71"]
       ELSE loop' = [loop EXCEPT ![m].pc = "l79", ![m].timeout = polling_interval]
    /\ UNCHANGED <<last_price, stop_event, monitoring_thread, fg, fetches,
                   polling_interval, caller, mcalls>>
    /\ UNCHANGED pool
    /\ UNCHANGED scoring

\* lines 70-79: get_market_data returns (its data go to the session state,
\* an exception is caught at line 75), then the call of
\* stop_event.wait(self.polling_interval)
monitor_loop_71(m) ==
    /\ loop[m].pc = "l71"
    /\ loop' = [loop EXCEPT ![m].pc = "l79", ![m].timeout = polling_interval]
    /\ UNCHANGED <<last_price, stop_event, monitoring_thread, fg,
                   market_cycle_count, fetches, polling_interval, caller, mcalls>>
    /\ UNCHANGED pool
    /\ UNCHANGED scoring

\* line 79: the wait returns, the time being over or the event set
monitor_loop_79(m) ==
    /\ loop[m].pc = "l79"
    /\ loop' = [loop EXCEPT ![m] = [pc |-> "l43", price_data |-> None, timeout |-> 0]]
    /\ UNCHANGED <<last_price, stop_event, monitoring_thread, fg,
                   market_cycle_count, fetches, polling_interval, caller, mcalls>>
    /\ UNCHANGED pool
    /\ UNCHANGED scoring

\* a handler that gives up: the thread ends after the exception
monitor_loop_84_exit(m) ==
    /\ loop[m].pc = "l84"
    /\ loop' = [loop EXCEPT ![m].pc = "dead"]
    /\ UNCHANGED <<last_price, stop_event, monitoring_thread, fg,
                   market_cycle_count, fetches, polling_interval, caller, mcalls>>
    /\ UNCHANGED pool
    /\ UNCHANGED scoring

\* line 84: the wait returns, the time being over or the event set
monitor_loop_84(m) ==
    /\ loop[m].pc = "l84"
    /\ loop' = [loop EXCEPT ![m] = [pc |-> "l43", price_data |-> None, timeout |-> 0]]
    /\ UNCHANGED <<last_price, stop_event, monitoring_thread, fg,
                   market_cycle_count, fetches, polling_interval, caller, mcalls>>
    /\ UNCHANGED pool
    /\ UNCHANGED scoring

\* lines 149-150: a foreground caller's fetch returns
force_price_update_150(result) ==
    /\ fg.pc = "none"
    /\ fetches.n < MaxFetches
    /\ fg' = [pc |-> "f151", price_data |-> result]
    /\ Fetched(result, TRUE, FALSE)
    /\ UNCHANGED <<last_price, stop_event, monitoring_thread, loop,
                   market_cycle_count, polling_interval, caller, mcalls>>
    /\ UNCHANGED pool
    /\ UNCHANGED scoring

\* lines 151-158: the result is published and returned, None is returned
force_price_update_151 ==
    /\ fg.pc = "f151"
    /\ IF fg.price_data # None
       THEN last_price' = fg.price_data
       ELSE UNCHANGED last_price
    /\ fg' = NoLoop
    /\ UNCHANGED <<stop_event, monitoring_thread, loop, market_cycle_count,
                   fetches, polling_interval, caller, mcalls>>
    /\ UNCHANGED pool
    /\ UNCHANGED scoring

\* lines 150 and 159-161: the caller's fetch raises; None is returned
force_price_update_159 ==
    /\ fg.pc = "none"
    /\ fetches.n < MaxFetches
    /\ Fetched(None, TRUE, FALSE)
    /\ UNCHANGED <<last_price, stop_event, monitoring_thread, loop, fg,
                   market_cycle_count, polling_interval, caller, mcalls>>
    /\ UNCHANGED pool
    /\ UNCHANGED scoring

\* lines 133-135
get_current_price == last_price

\* a step of the thread m, its fetch returning one of `results`
LoopStepWith(m, results) ==
        \/ monitor_loop_43(m)
        \/ \E result \in results : monitor_loop_46(m, result)
        \/ monitor_loop_81(m)
        \/ monitor_loop_48(m)
        \/ monitor_loop_61(m)
        \/ monitor_loop_64(m)
        \/ monitor_loop_71(m)
        \/ monitor_loop_79(m)
        \/ monitor_loop_84(m)

\* a step of the thread m
LoopStep(m) == LoopStepWith(m, FetchResults)

\* a step of the session c, passing one of `intervals` to start_monitoring
SessionStepWith(c, intervals) ==
        \/ \E interval \in intervals : start_monitoring_27(c, interval)
        \/ start_monitoring_30(c)
        \/ stop_monitoring_37(c)
        \/ stop_monitoring_39(c)

\* a step of the session c
SessionStep(c) == SessionStepWith(c, PollingArgs)

\* the monitor with one session calling it, and force_price_update
MonNext ==
        \/ SessionStep("s1")
        \/ \E m \in LoopThreads : LoopStep(m)
        \/ \E result \in FetchResults : force_price_update_150(result)
        \/ force_price_update_159
        \/ force_price_update_151

MonSpec == Init /\ [][MonNext]_vars

\* the monitor with one session calling it and nothing else: a thread
\* created by start_monitoring runs, and a call that has been entered goes
\* on (the threads are scheduled fairly)
LoopNext ==
        \/ SessionStep("s1")
        \/ \E m \in LoopThreads : LoopStep(m)

LoopSpec ==
    /\ Init
    /\ [][LoopNext]_vars
    /\ \A m \in LoopThreads : WF_vars(LoopStep(m))
    /\ WF_vars(start_monitoring_30("s1") \/ stop_monitoring_39("s1"))

----------------------------------------------------------------------------
(* LifeSpec: the monitor and the pool it scans, with one foreground that   *)
(* is inside one call at a time: a call of start_monitoring or of          *)
(* stop_monitoring, or the pool's simulate_matching. The fetches return    *)
(* one price or None, the foreground passes the default interval. Every    *)
(* thread is scheduled fairly.                                             *)

\* a step of the thread m in LifeSpec
LifeLoopStep(m) == LoopStepWith(m, {<<9900>>, None})

LifeNext ==
        \/ SessionStepWith("s1", {15}) /\ pc["t1"] = "idle"
        \/ \E m \in LoopThreads : LifeLoopStep(m)
        \/ simulate_matching("t1") /\ caller["s1"].pc = "idle"

LifeSpec ==
    /\ Init
    /\ [][LifeNext]_vars
    /\ \A m \in LoopThreads : WF_vars(LifeLoopStep(m))
    /\ WF_vars(start_monitoring_30("s1") \/ stop_monitoring_39("s1"))

(* CycleSpec: the monitor through MaxCycles cycles of its loop, with one   *)
(* session that starts and stops it. The fetches return one price or None, *)
(* or raise.                                                               *)

\* a step of the thread m in CycleSpec
CycleLoopStep(m) ==
        \/ monitor_loop_43_within(m, MaxCycles)
        \/ \E result \in {<<9900>>, None} : monitor_loop_46(m, result)
        \/ monitor_loop_81(m)
        \/ monitor_loop_48(m)
        \/ monitor_loop_61(m)
        \/ monitor_loop_64(m)
        \/ monitor_loop_71(m)
        \/ monitor_loop_79(m)
        \/ monitor_loop_84(m)

CycleNext ==
        \/ SessionStepWith("s1", {15})
        \/ \E m \in LoopThreads : CycleLoopStep(m)

CycleSpec == Init /\ [][CycleNext]_vars

(* SessionsSpec: the monitor called by two sessions of the app at once.    *)

SessionsNext ==
        \/ \E c \in Sessions : SessionStepWith(c, {15})
        \/ \E m \in LoopThreads : LifeLoopStep(m)

SessionsSpec == Init /\ [][SessionsNext]_vars

----------------------------------------------------------------------------
(* ScoreSpec: the arbitrage score, as AnalyticsEngine computes it and as   *)
(* the manual scan of app.py does. Percentages are integers in units of    *)
(* 0.0001 per cent (25000 is 2.5 %), scores integers in units of 0.0001    *)
(* point (1000000 is 100 points). The prices are chosen so that the        *)
(* division of the spread is exact. `scoring` keeps the last two scores    *)
(* computed, with the inputs they were computed from.                      *)

\* OTC prices and reference prices, in cents
ScoreOtcPrices == {9500, 9700, 10000, 10250, 10500}
ScoreRefPrices == {10000}
\* volumes in hundredths of SOL
VolumeArgs == {50, 500, 2000}
\* price impacts a quote can report, in units of 0.0001 per cent
ImpactArgs == {0, 130}

\* 1 per cent, and 100 points, in the units above
OnePct == 10000
Hundred == 1000000


\* analytics_engine.py lines 252-255, app.py lines 448-451
spread_pct(offer_type, otc_price, jupiter_price) ==
    IF offer_type = "BUY"
    THEN ((otc_price - jupiter_price) * 100 * OnePct) \div jupiter_price
    ELSE ((jupiter_price - otc_price) * 100 * OnePct) \div jupiter_price

\* line 265: max(0, min(100, (net_arbitrage + 5) * 10))
base_score(net_arbitrage) ==
    Max(0, Min(Hundred, (net_arbitrage + 5 * OnePct) * 10))

\* lines 268-272, in tenths
volume_factor(volume) ==
    IF volume > 1000 THEN 8
    ELSE IF volume < 100 THEN 11
    ELSE 10

\* round(x, 2) of a score x >= 0: to the nearest hundredth of a point, a
\* tie to the even one
round2(x) ==
    LET q == x \div 10000
        r == x % 10000
    IN  IF r > 5000 \/ (r = 5000 /\ q % 2 = 1) THEN (q + 1) * 10000 ELSE q * 10000

\* lines 251-301: the score calculate_arbitrage_score returns, price_impact
\* being what get_advanced_quote_with_routes reported (0 when it failed)
calculate_arbitrage_score(otc_price, jupiter_price, offer_type, volume, price_impact) ==
    LET net_arbitrage == spread_pct(offer_type, otc_price, jupiter_price) - price_impact
        final_score == (base_score(net_arbitrage) * volume_factor(volume)) \div 10
    IN  [by |-> "calculate_arbitrage_score", offer_type |-> offer_type,
         volume |-> volume, price_impact |-> price_impact,
         net_spread |-> net_arbitrage, score |-> round2(final_score)]

\* app.py lines 448-498: what the manual scan appends for one offer:
\* nothing, or an opportunity with its score. `quote` is the price impact of
\* the quote of line 456, or None when the fetch failed
scan_offer(offer_type, otc_price, jupiter_price, quote) ==
    LET spread == spread_pct(offer_type, otc_price, jupiter_price)
        net_spread == spread - quote[1]
    IN  IF Abs(spread) <= OnePct THEN <<>>
        ELSE IF quote # None
        THEN IF net_spread > OnePct \div 4
             THEN <<[by |-> "scan", offer_type |-> offer_type, volume |-> 0,
                     price_impact |-> quote[1], net_spread |-> net_spread,
                     score |-> Min(Hundred, Max(0, net_spread * 15))]>>
             ELSE <<>>
        ELSE IF Abs(spread) > 2 * OnePct
        THEN <<[by |-> "scan_fallback", offer_type |-> offer_type, volume |-> 0,
                price_impact |-> 0, net_spread |-> spread,
                score |-> Min(Hundred, Max(0, Abs(spread) * 10))]>>
        ELSE <<>>

\* a score has been computed
Scored(result) == scoring' = [prev |-> scoring.cur, cur |-> result]

\* a call of AnalyticsEngine.calculate_arbitrage_score
score_call(otc_price, jupiter_price, offer_type, volume, price_impact) ==
    /\ Scored(calculate_arbitrage_score(otc_price, jupiter_price, offer_type,
                                        volume, price_impact))
    /\ UNCHANGED pool
    /\ UNCHANGED monitor

\* the manual scan handles one offer
scan_call(offer_type, otc_price, jupiter_price, quote) ==
    /\ LET found == scan_offer(offer_type, otc_price, jupiter_price, quote)
       IN  IF found # <<>> THEN Scored(found[1]) ELSE UNCHANGED scoring
    /\ UNCHANGED pool
    /\ UNCHANGED monitor

ScoreNext ==
        \/ \E o \in ScoreOtcPrices, j \in ScoreRefPrices, ty \in {"BUY", "SELL"},
              v \in VolumeArgs, i \in ImpactArgs :
               score_call(o, j, ty, v, i)
        \/ \E o \in ScoreOtcPrices, j \in ScoreRefPrices, ty \in {"BUY", "SELL"},
              q \in {<<i>> : i \in ImpactArgs} \cup {None} :
               scan_call(ty, o, j, q)

ScoreSpec == Init /\ [][ScoreNext]_vars

----------------------------------------------------------------------------
(* Reading a step: which call returns in it, and the book it was entered on *)

\* a call of method op returns (or raises) in this step
Returned(op) ==
    /\ last'.op = op
    /\ last'.ret # "running"
    /\ ncalls' = ncalls + 1 \/ last.ret = "running"

\* no call is running: the states a caller of the pool sees between calls
Quiet == \A t \in Threads : pc[t] = "idle"

ActiveIds == {i \in DOMAIN offers : offers[i].status = "ACTIVE"}

\* in index d, b is a BUY and s a different offer, a SELL, both posted with
\* a quantity > 0 and ACTIVE
GenuinePair(d, b, s) ==
    /\ b \in DOMAIN d /\ s \in DOMAIN d /\ b # s
    /\ d[b].type = "BUY" /\ d[s].type = "SELL"
    /\ d[b].status = "ACTIVE" /\ d[s].status = "ACTIVE"
    /\ d[b].sol_amount > 0 /\ d[s].sol_amount > 0

----------------------------------------------------------------------------
(* C1: every call of simulate_matching and of get_pool_stats runs to       *)
(* completion: a thread inside either method can always take its next      *)
(* step, and once no call is running the lock is released.                 *)
C1_CallsComplete ==
    /\ \A t \in Threads :
          pc[t] \in {"sm_94", "sm_95", "ps_174"} => ENABLED Step(t)
    /\ Quiet => lock = NoThread

(* C2: between calls, an id is in active_offers iff the offer is in the id *)
(* index with status ACTIVE, and get_active_offers lists exactly those     *)
(* offers, each once.                                                      *)
C2_ActiveIffStatus ==
    Quiet =>
        /\ \A i \in IdArgs : Contains(active_offers, i) <=> i \in ActiveIds
        /\ {active_list[k] : k \in 1..Len(active_list)} = ActiveIds
        /\ Len(active_list) = Cardinality(ActiveIds)
        /\ last.op = "get_active_offers" => last.list = active_list

C2_Witness ==
    /\ last.op = "cancel_offer"
    /\ last.ret = "True"
    /\ ActiveIds # {}
    /\ \E i \in DOMAIN offers : offers[i].status = "CANCELLED"

(* C3: as long as clear_pool has not been called, the ids add_offer has    *)
(* returned are strictly increasing in the order of the calls (so pairwise *)
(* distinct), whichever threads made the calls.                            *)
C3_IdsIncrease ==
    ~cleared => \A i, j \in 1..Len(issued) : i < j => issued[i] < issued[j]

C3_Witness ==
    /\ ~cleared
    /\ Len(issued) = 2
    /\ last.op = "add_offer"
    /\ \E i \in DOMAIN offers : offers[i].status = "CANCELLED"

(* C4: no id is returned by add_offer twice, whatever calls (clear_pool    *)
(* included) come in between.                                              *)
C4_IdNeverReused ==
    \A i, j \in 1..Len(issued) : i # j => issued[i] # issued[j]

(* C5: an add_offer with quantity <= 0 or price <= 0 fails with            *)
(* InvalidOrder and changes neither next_id nor the two indices.           *)
C5_InvalidOrderRejected ==
    [][(Returned("add_offer") /\ (last'.args[2] <= 0 \/ last'.args[3] <= 0))
         => /\ last'.ret = "InvalidOrder"
            /\ UNCHANGED <<offers, active_offers, next_id>>]_vars

(* C6: no offer has a negative quantity. Stated for the case the claim     *)
(* names: after an execute_match of a quantity > 0 on a BUY and a          *)
(* different SELL, both posted with a quantity > 0, has returned True,     *)
(* both legs have a quantity >= 0.                                         *)
C6_QuantityNonNegative ==
    [][(Returned("execute_match") /\ last'.ret = "True" /\ last'.args[3] > 0
        /\ GenuinePair(offers, last'.args[1], last'.args[2]))
         => \A i \in DOMAIN offers' : offers'[i].sol_amount >= 0]_vars

(* C7: execute_match returns False and leaves the book as it was unless    *)
(* both ids are in the id index, both offers are ACTIVE and the quantity   *)
(* is > 0. Checked on the calls that name two different ids of which      *)
(* buy_id, when it is in the index, names a BUY and sell_id a SELL, both   *)
(* of a quantity > 0.                                                      *)
C7_ExecuteFailsClosed ==
    [][(/\ Returned("execute_match")
        /\ last'.args[1] # last'.args[2]
        /\ last'.args[1] \in DOMAIN offers =>
              /\ offers[last'.args[1]].type = "BUY"
              /\ offers[last'.args[1]].sol_amount > 0
        /\ last'.args[2] \in DOMAIN offers =>
              /\ offers[last'.args[2]].type = "SELL"
              /\ offers[last'.args[2]].sol_amount > 0) =>
         LET b == last'.args[1]
             s == last'.args[2]
             q == last'.args[3]
             ok == /\ b \in DOMAIN offers /\ s \in DOMAIN offers
                   /\ offers[b].status = "ACTIVE" /\ offers[s].status = "ACTIVE"
                   /\ q > 0
         IN  ~ok => last'.ret = "False" /\ UNCHANGED book]_vars

(* C8: an execute_match that returns True has decremented both legs by the *)
(* quantity; a leg is COMPLETED and out of active_offers exactly when its  *)
(* quantity is no longer positive, and ACTIVE and in active_offers         *)
(* otherwise. Checked on the calls of a quantity > 0 on offers of a        *)
(* quantity > 0.                                                           *)
C8_ExecuteDecrements ==
    [][(/\ Returned("execute_match")
        /\ last'.ret = "True"
        /\ last'.args[3] > 0
        /\ offers[last'.args[1]].sol_amount > 0
        /\ offers[last'.args[2]].sol_amount > 0) =>
         LET q == last'.args[3]
         IN  \A x \in {last'.args[1], last'.args[2]} :
                /\ offers'[x].sol_amount = offers[x].sol_amount - q
                /\ IF offers'[x].sol_amount <= 0
                   THEN /\ offers'[x].status = "COMPLETED"
                        /\ ~Contains(active_offers', x)
                   ELSE /\ offers'[x].status = "ACTIVE"
                        /\ Contains(active_offers', x)]_vars

\* the book holds exactly one ACTIVE BUY b and one ACTIVE SELL s, posted with
\* quantities > 0, that cross
OnePair(d, act, b, s) ==
    /\ GenuinePair(d, b, s)
    /\ {i \in DOMAIN d : d[i].status = "ACTIVE"} = {b, s}
    /\ act \in {<<b, s>>, <<s, b>>}
    /\ d[s].price_per_sol <= d[b].price_per_sol

(* C9: on a book with one ACTIVE BUY (qb at pb) and one ACTIVE SELL (qs at *)
(* ps <= pb), a simulate_matching call goes on to return, and returns one  *)
(* candidate with quantity min(qb, qs), price (pb + ps) / 2 and spread     *)
(* pb - ps.                                                                *)
C9_PartialFill ==
    \A b, s \in IdArgs :
        (last.op = "simulate_matching" /\ OnePair(offers, active_offers, b, s)) =>
            /\ \A t \in Threads : pc[t] # "idle" => ENABLED Step(t)
            /\ last.ret # "running" =>
                  /\ Len(last.list) = 1
                  /\ last.list[1].buy_id = b
                  /\ last.list[1].sell_id = s
                  /\ last.list[1].match_amount
                        = Min(offers[b].sol_amount, offers[s].sol_amount)
                  /\ 2 * last.list[1].match_price
                        = offers[b].price_per_sol + offers[s].price_per_sol
                  /\ last.list[1].spread
                        = offers[b].price_per_sol - offers[s].price_per_sol

(* The second half of C9: on such a book with qb # qs, executing the       *)
(* quantity min(qb, qs) leaves the smaller leg COMPLETED at 0 and the      *)
(* larger leg ACTIVE at |qb - qs|.                                         *)
C9_ExecuteHalf ==
    [][\A b, s \in IdArgs :
         (/\ Returned("execute_match")
          /\ OnePair(offers, active_offers, b, s)
          /\ offers[b].sol_amount # offers[s].sol_amount
          /\ last'.args[1] = b /\ last'.args[2] = s
          /\ last'.args[3] = Min(offers[b].sol_amount, offers[s].sol_amount))
         => LET qb == offers[b].sol_amount
                qs == offers[s].sol_amount
                small == IF qb < qs THEN b ELSE s
                large == IF qb < qs THEN s ELSE b
            IN  /\ last'.ret = "True"
                /\ offers'[small].status = "COMPLETED"
                /\ offers'[small].sol_amount = 0
                /\ offers'[large].status = "ACTIVE"
                /\ offers'[large].sol_amount = (IF qb < qs THEN qs - qb ELSE qb - qs)
                /\ active_offers' = <<large>>]_vars

(* C10: cancel_offer(id) returns True exactly when the offer is in the id  *)
(* index with status ACTIVE; then it sets the status to CANCELLED and      *)
(* removes the id from active_offers, otherwise it changes nothing; either *)
(* way the offer is not ACTIVE afterwards, and a cancel that follows a     *)
(* cancel of the same id returns False.                                    *)
C10_CancelContract ==
    [][Returned("cancel_offer") =>
         LET i == last'.args[1]
             ok == i \in DOMAIN offers /\ offers[i].status = "ACTIVE"
         IN  /\ last'.ret = (IF ok THEN "True" ELSE "False")
             /\ ok => /\ offers' = [offers EXCEPT ![i].status = "CANCELLED"]
                      /\ ~Contains(active_offers', i)
                      /\ active_offers' = Remove(active_offers, i)
             /\ ~ok => UNCHANGED <<offers, active_offers>>
             /\ UNCHANGED <<completed_offers, next_id>>
             /\ ~(i \in DOMAIN offers' /\ offers'[i].status = "ACTIVE")
             /\ (last.op = "cancel_offer" /\ last.args = last'.args)
                    => last'.ret = "False"]_vars

\* a second cancel of a cancelled offer has returned False
C10_Witness ==
    /\ last.op = "cancel_offer"
    /\ last.ret = "False"
    /\ last.args[1] \in DOMAIN offers
    /\ offers[last.args[1]].status = "CANCELLED"

----------------------------------------------------------------------------
\* seq without its last element
Front(seq) == SubSeq(seq, 1, Len(seq) - 1)

(* C11: add_offer followed at once by cancel_offer of the id it returned   *)
(* leaves the result of get_active_offers (the dicts and their order) as   *)
(* it was before the add_offer. In two steps: add_offer appends the new    *)
(* offer to that result and leaves the rest of it alone; the cancel_offer  *)
(* that follows it takes exactly that last element away again.             *)
C11_AddCancelRoundTrip ==
    [][(Returned("add_offer") =>
           /\ Len(ActiveView') = Len(ActiveView) + 1
           /\ Front(ActiveView') = ActiveView
           /\ ActiveView'[Len(ActiveView')].id = last'.id)
       /\
       ((last.op = "add_offer" /\ Returned("cancel_offer")
                               /\ last'.args[1] = last.id) =>
           /\ last'.ret = "True"
           /\ ActiveView' = Front(ActiveView))]_vars

\* an offer was added to a non-empty book and cancelled by the next call
C11_Witness ==
    /\ last.op = "cancel_offer"
    /\ last.ret = "True"
    /\ Len(issued) = 2
    /\ last.args[1] = issued[2]
    /\ ncalls = 2 + 1
    /\ active_offers = <<issued[1]>>

Terminal(o) == o.status \in {"CANCELLED", "COMPLETED"}

(* C12: over add_offer, cancel_offer and execute_match calls (every step   *)
(* but a clear_pool), a status changes only from ACTIVE to CANCELLED or    *)
(* COMPLETED: an offer that is CANCELLED or COMPLETED stays in the index   *)
(* with that status.                                                       *)
C12_StatusOneWay ==
    [][last'.op # "clear_pool" =>
         \A i \in DOMAIN offers :
            /\ i \in DOMAIN offers'
            /\ (offers'[i].status # offers[i].status =>
                  (/\ offers[i].status = "ACTIVE"
                   /\ Terminal(offers'[i])))]_vars

\* an execute_match on a CANCELLED offer has been refused
C12_Witness ==
    /\ last.op = "execute_match"
    /\ last.ret = "False"
    /\ last.args[1] \in DOMAIN offers
    /\ offers[last.args[1]].status = "CANCELLED"
    /\ ~cleared

\* lines 75-78: get_offer, dict.get under the lock. An Optional is a
\* sequence here: <<offer>>, or <<>> for None (an unknown id)
get_offer(offer_id) ==
    IF offer_id \in DOMAIN offers THEN <<offers[offer_id]>> ELSE <<>>

(* C13: once an offer is CANCELLED or COMPLETED, get_offer(id) returns it  *)
(* with the same status, quantity, price and side after every later call,  *)
(* clear_pool included. Checked on the offers that were cancelled with a   *)
(* quantity > 0 left or completed at quantity 0.                           *)
C13_TerminalRetained ==
    [][\A i \in DOMAIN offers :
          (\/ offers[i].status = "CANCELLED" /\ offers[i].sol_amount > 0
           \/ offers[i].status = "COMPLETED" /\ offers[i].sol_amount = 0) =>
             /\ get_offer(i)' # <<>>
             /\ get_offer(i)'[1].status = offers[i].status
             /\ get_offer(i)'[1].sol_amount = offers[i].sol_amount
             /\ get_offer(i)'[1].price_per_sol = offers[i].price_per_sol
             /\ get_offer(i)'[1].type = offers[i].type]_vars

----------------------------------------------------------------------------
(* simulate_matching: what its result has to be on the current book *)

\* b is an ACTIVE BUY and s an ACTIVE SELL with b.price >= s.price
Crosses(b, s) ==
    /\ b \in DOMAIN offers /\ s \in DOMAIN offers
    /\ offers[b].type = "BUY" /\ offers[s].type = "SELL"
    /\ offers[b].status = "ACTIVE" /\ offers[s].status = "ACTIVE"
    /\ offers[b].price_per_sol >= offers[s].price_per_sol

\* one candidate for every crossing pair and none for any other pair, each
\* with quantity min(qb, qs), price (pb + ps) / 2 and spread pb - ps >= 0
CandidatesOf(list) ==
    /\ \A b, s \in IdArgs :
          Cardinality({k \in 1..Len(list) :
                          list[k].buy_id = b /\ list[k].sell_id = s})
             = (IF Crosses(b, s) THEN 1 ELSE 0)
    /\ \A k \in 1..Len(list) :
          /\ list[k].buy_id \in IdArgs /\ list[k].sell_id \in IdArgs
          /\ list[k].match_amount = Min(offers[list[k].buy_id].sol_amount,
                                        offers[list[k].sell_id].sol_amount)
          /\ 2 * list[k].match_price = offers[list[k].buy_id].price_per_sol
                                       + offers[list[k].sell_id].price_per_sol
          /\ list[k].spread = offers[list[k].buy_id].price_per_sol
                              - offers[list[k].sell_id].price_per_sol
          /\ list[k].spread >= 0

\* buy-major: buys by descending price, then ascending id; within one buy
\* the sells by ascending price, then ascending id
BuyMajor(list) ==
    \A k, l \in 1..Len(list) :
        k < l =>
           \/ list[k].buy_price > list[l].buy_price
           \/ list[k].buy_price = list[l].buy_price /\ list[k].buy_id < list[l].buy_id
           \/ /\ list[k].buy_id = list[l].buy_id
              /\ \/ list[k].sell_price < list[l].sell_price
                 \/ /\ list[k].sell_price = list[l].sell_price
                    /\ list[k].sell_id < list[l].sell_id

\* a simulate_matching call has been entered and no call after it
InSimulate == last.op = "simulate_matching"

\* every thread that is inside a method can take its next step
CallsGoOn == \A t \in Threads : pc[t] # "idle" => ENABLED Step(t)

\* the book has an ACTIVE BUY and a different ACTIVE SELL that cross, both
\* posted with a quantity > 0
HasCrossingPair ==
    \E b, s \in DOMAIN offers : GenuinePair(offers, b, s) /\ Crosses(b, s)

(* C14: a simulate_matching call on a book with a crossing pair goes on to *)
(* return, and returns exactly one candidate for every pair of an ACTIVE   *)
(* BUY b and an ACTIVE SELL s with b.price >= s.price and none for any     *)
(* other pair, each with match_amount = min of the two quantities,         *)
(* match_price = the midpoint and spread = b.price - s.price >= 0.         *)
C14_OneCandidatePerPair ==
    (InSimulate /\ HasCrossingPair) =>
        /\ CallsGoOn
        /\ last.ret # "running" => CandidatesOf(last.list)

(* C15: a simulate_matching call on a book with a crossing pair goes on to *)
(* return, and the candidates it returns are ordered buy-major: buys in descending price (equal prices:  *)
(* ascending id), within one buy the sells in ascending price (equal       *)
(* prices: ascending id).                                                  *)
C15_BuyMajorOrder ==
    (InSimulate /\ HasCrossingPair) =>
        /\ CallsGoOn
        /\ last.ret # "running" => BuyMajor(last.list)

(* C16: simulate_matching is a pure read that can be repeated: a call      *)
(* returns, a second call on the unchanged book can be entered after it,   *)
(* and each returns the candidates computed from the book as it is.        *)
C16_RepeatableRead ==
    InSimulate =>
        /\ CallsGoOn
        /\ last.ret # "running" =>
              last.list = matches_from(typed_list("BUY"), typed_list("SELL"))
        /\ ncalls < MaxCalls => \E t \in Threads : ENABLED simulate_matching(t)

(* The frame half of C16: no step of simulate_matching changes an offer,   *)
(* either list or next_id.                                                 *)
C16_Frame ==
    [][last'.op = "simulate_matching" => UNCHANGED book]_vars

(* The computation of lines 97-127 taken by itself, on every book between  *)
(* calls: the candidates it yields from the two lists get_offers_by_type   *)
(* returns are those C14 and C15 describe.                                 *)
C14_Computation ==
    Quiet => LET list == matches_from(typed_list("BUY"), typed_list("SELL"))
             IN  CandidatesOf(list) /\ BuyMajor(list)

----------------------------------------------------------------------------
(* C19: whenever the pool's lock is held it is eventually released (so a   *)
(* monitor scan waiting at line 71 of get_active_offers for the lock       *)
(* eventually gets it), for every interleaving of the calls of the two     *)
(* threads, each scheduled fairly.                                         *)
C19_LockReleased == (lock # NoThread) ~> (lock = NoThread)

----------------------------------------------------------------------------
\* thread t holds a list that get_active_offers returned
HoldsList(t) == pc[t] = "ca_96"

(* C17: the offers get_active_offers returned are snapshots: as long as a  *)
(* caller holds the returned list, every offer in it shows the status and  *)
(* the quantity it had when the call returned, whatever cancel_offer and   *)
(* execute_match calls were made since.                                    *)
C17_SnapshotImmutable ==
    \A t \in Threads :
        HoldsList(t) =>
            \A k \in 1..Len(frame[t].active_offers) :
                LET now == offers[frame[t].active_offers[k]]
                    then == frame[t].returned[k]
                IN  now.status = then.status /\ now.sol_amount = then.sol_amount

\* thread r reads a dict of its list in this step
Reads(r) == HoldsList(r) /\ frame[r].k <= Len(frame[r].active_offers)
                         /\ frame'[r] # frame[r]

(* C18: a thread that reads, with no lock, the offers get_active_offers    *)
(* returned while another thread is inside execute_match sees a book state *)
(* of before or after the whole call: everything it reads during that     *)
(* call is what the book held when the call was entered, or everything is  *)
(* what the book holds when the call returns. Checked on the execute_match *)
(* calls of a quantity > 0 on a BUY and a different SELL.                  *)
C18_LinearizableView ==
    [][\A r \in Threads, w \in Threads :
         (/\ Reads(r)
          /\ pc[w] \in ExecuteLines
          /\ frame[w].match_amount > 0
          /\ GenuinePair(frame[w].entry.offers, frame[w].buy_id, frame[w].sell_id)) =>
            LET before == frame[w].entry.offers
                after == execute_lines(frame[w].entry, frame[w].buy_id,
                                       frame[w].sell_id, frame[w].match_amount).offers
                read == {frame'[r].seen[j].offer :
                            j \in {i \in 1..Len(frame'[r].seen) :
                                      frame'[r].seen[i].during = ncalls}}
            IN  \/ \A o \in read : o = before[o.id]
                \/ \A o \in read : o = after[o.id]]_vars

----------------------------------------------------------------------------
\* a fetch has returned a price that its caller has not stored yet
Unpublished ==
    \/ \E m \in LoopThreads : loop[m].pc = "l48" /\ loop[m].price_data # None
    \/ fg.pc = "f151" /\ fg.price_data # None

(* C20: get_current_price returns None only if no fetch has ever           *)
(* succeeded, and otherwise the price of the most recent successful fetch, *)
(* however many fetches have failed since (in the states in which no       *)
(* fetched price is waiting to be stored).                                 *)
C20_PriceOfLastSuccess ==
    ~Unpublished => get_current_price = fetches.good

(* C20 for one loop alone: the same, as long as force_price_update has not *)
(* been called and no two calls of start_monitoring or stop_monitoring     *)
(* have overlapped (so that one thread at a time runs the loop).           *)
C20_LoopAlone ==
    (~Unpublished /\ ~fetches.forced /\ ~mcalls.overlapped)
        => get_current_price = fetches.good

(* The first half of C20: a fetch that fails (it returns None or raises),  *)
(* in the loop or in force_price_update, leaves the published price as it  *)
(* is, up to the next fetch.                                               *)
C20_FailureKeepsPrice ==
    [][(fetches'.fails > fetches.fails
        \/ (fetches.fails > 0 /\ fetches' = fetches /\ ~Unpublished))
          => get_current_price' = get_current_price]_vars

\* three fetches have failed since the last one that succeeded
C20_ThreeFailures ==
    /\ fetches.good # None
    /\ fetches.fails >= 3
    /\ \E m \in LoopThreads : loop[m].pc = "l79"
    /\ ~fetches.forced

----------------------------------------------------------------------------
\* the lines at which the loop is inside stop_event.wait
Waits == {"l79", "l84"}

\* thread m calls stop_event.wait in this step
EntersWait(m) == loop[m].pc \notin Waits /\ loop'[m].pc \in Waits

(* C21: after a cycle whose fetch failed, by returning None or by raising, *)
(* the loop waits min(polling_interval, 30) seconds.                       *)
C21_FailureShortensWait ==
    [][\A m \in LoopThreads :
          (EntersWait(m) /\ loop'[m].price_data = None)
             => loop'[m].timeout = Min(polling_interval, 30)]_vars

(* C21 for the intervals up to 30 seconds, and for the fetches that raise: *)
(* there the wait is min(polling_interval, 30).                            *)
C21_ShortIntervalOrRaise ==
    [][\A m \in LoopThreads :
          (/\ EntersWait(m)
           /\ loop'[m].price_data = None
           /\ polling_interval <= 30 \/ loop'[m].pc = "l84")
             => loop'[m].timeout = Min(polling_interval, 30)]_vars

----------------------------------------------------------------------------
(* C29: every arbitrage score, of calculate_arbitrage_score and of the     *)
(* manual scan, is at least 0 and at most 100.                             *)
C29_ScoreInRange ==
    scoring.cur.by # "none" => scoring.cur.score >= 0 /\ scoring.cur.score <= Hundred

(* C29 for the manual scan alone: its scores are within [0, 100].          *)
C29_ScanInRange ==
    scoring.cur.by \in {"scan", "scan_fallback"}
        => scoring.cur.score >= 0 /\ scoring.cur.score <= Hundred

\* two scores computed at the same place of the code for the same side,
\* execution cost and volume
SameSetting(a, b) ==
    /\ a.by # "none"
    /\ a.by = b.by
    /\ a.offer_type = b.offer_type
    /\ a.price_impact = b.price_impact
    /\ a.volume = b.volume

(* C30: of two scores computed for the same side, execution cost and       *)
(* volume, the one of the smaller net spread is not the larger one.        *)
C30_ScoreMonotonic ==
    (SameSetting(scoring.prev, scoring.cur)
     /\ scoring.prev.net_spread <= scoring.cur.net_spread)
        => scoring.prev.score <= scoring.cur.score

(* C30 without the scores the scan computes when the quote has failed      *)
(* (app.py lines 486-498): the scores of calculate_arbitrage_score and of  *)
(* app.py line 473 are monotonic in the net spread.                        *)
C30_MonotonicWithImpact ==
    (/\ SameSetting(scoring.prev, scoring.cur)
     /\ scoring.cur.by # "scan_fallback"
     /\ scoring.prev.net_spread <= scoring.cur.net_spread)
        => scoring.prev.score <= scoring.cur.score

\* two scores of the same setting, a larger one for a larger net spread
C30_Increasing ==
    /\ SameSetting(scoring.prev, scoring.cur)
    /\ scoring.cur.by # "scan_fallback"
    /\ scoring.prev.net_spread < scoring.cur.net_spread
    /\ scoring.prev.score < scoring.cur.score

----------------------------------------------------------------------------
\* the cycle of thread m has failed: its fetch has returned None, or raised
FailedCycle(m) ==
    \/ loop[m].pc = "l48" /\ loop[m].price_data = None
    \/ loop[m].pc = "l84"

(* C22: a cycle whose fetch returned no data or raised does not end the    *)
(* loop: unless stop_monitoring sets the event, the thread comes to line   *)
(* 46 again, the next fetch (the model makes MaxFetches fetches at most).  *)
C22_FailureKeepsLoop ==
    \A m \in LoopThreads :
        (FailedCycle(m) /\ ~stop_event)
            ~> (loop[m].pc = "l46" \/ stop_event \/ fetches.n >= MaxFetches)

\* a thread is fetching again after a failed cycle, the event not set
C22_Witness ==
    \E m \in LoopThreads :
        /\ loop[m].pc = "l46"
        /\ fetches.fails >= 1
        /\ ~fetches.forced
        /\ ~stop_event
        /\ fetches.n < MaxFetches

----------------------------------------------------------------------------
\* thread t takes a step of the scan
ScanStepOf(t) ==
    /\ pc[t] = "ca_96" \/ pc'[t] = "ca_96"
    /\ pc'[t] # pc[t] \/ frame'[t] # frame[t]

\* the scan of thread t returns in this step
ScanReturns(t) == pc[t] = "ca_96" /\ pc'[t] = "idle"

\* the claim's spread of offer o against the reference price ref, in per
\* cent, exceeds 1.0 in absolute value
SpreadOverOne(o, ref) == 100 * Abs(o.price_per_sol - ref) > ref

(* C23: the scan emits an opportunity for an offer iff the offer is ACTIVE *)
(* (in the book the scan read at line 94) and its spread against the       *)
(* reference price is above 1.0 per cent in absolute value, once each; the *)
(* spread logged is (price - ref) / ref * 100 for a BUY and                *)
(* (ref - price) / ref * 100 for a SELL.                                   *)
C23_EmitsIffOverOne ==
    [][\A t \in Threads :
          ScanReturns(t) =>
             LET f == frame[t]
                 ref == f.jupiter_price
                 emitted == {f.opportunities[k].offer_id :
                                k \in 1..Len(f.opportunities)}
                 due == {i \in DOMAIN f.entry :
                            /\ f.entry[i].status = "ACTIVE"
                            /\ SpreadOverOne(f.entry[i], ref)}
             IN  /\ emitted = due
                 /\ Len(f.opportunities) = Cardinality(due)
                 /\ \A k \in 1..Len(f.opportunities) :
                       LET op == f.opportunities[k]
                           o == f.entry[op.offer_id]
                       IN  op.spread_pct.num * ref =
                              (IF o.type = "BUY"
                               THEN (o.price_per_sol - ref) * 100
                               ELSE (ref - o.price_per_sol) * 100) * op.spread_pct.den]_vars

\* a scan is about to return: it has emitted one offer and passed over one
\* at exactly 1.0 per cent and one that was not ACTIVE
C23_Witness ==
    \E t \in Threads :
        /\ pc[t] = "ca_96"
        /\ frame[t].k > Len(frame[t].active_offers)
        /\ Len(frame[t].opportunities) >= 1
        /\ \E i \in DOMAIN frame[t].entry :
              /\ frame[t].entry[i].status # "ACTIVE"
              /\ SpreadOverOne(frame[t].entry[i], frame[t].jupiter_price)

\* a scan has passed over an ACTIVE offer at exactly 1.0 per cent
C23_AtOne ==
    \E t \in Threads :
        /\ pc[t] = "ca_96"
        /\ frame[t].k > Len(frame[t].active_offers)
        /\ frame[t].opportunities = <<>>
        /\ \E i \in DOMAIN frame[t].entry :
              /\ frame[t].entry[i].status = "ACTIVE"
              /\ 100 * Abs(frame[t].entry[i].price_per_sol - frame[t].jupiter_price)
                    = frame[t].jupiter_price

(* C24: no step of the scan changes the offer book: the offers' fields,    *)
(* the id index, the active and the completed list and next_id are what    *)
(* they were.                                                              *)
C24_ScanLeavesBook ==
    [][\A t \in Threads : ScanStepOf(t) => UNCHANGED book]_vars

\* a scan over a book of two ACTIVE offers has read both
C24_Witness ==
    \E t \in Threads :
        /\ pc[t] = "ca_96"
        /\ Len(frame[t].active_offers) = 2
        /\ frame[t].k > 2

----------------------------------------------------------------------------
\* the threads that are executing _monitor_loop
Running == {m \in LoopThreads : is_alive(m)}

(* C25: at most one thread executes _monitor_loop at any time, and while   *)
(* one does, no call creates another: start_monitoring returns and leaves  *)
(* the threads as they are.                                                *)
C25_OneLoop ==
    [][/\ Cardinality(Running') <= 1
       /\ Running # {} => Created' = Created]_vars

\* start_monitoring, called after a stop_monitoring while the thread was
\* still alive, has returned and has created no second thread
C25_Witness ==
    /\ mcalls.last = "start_monitoring"
    /\ mcalls.after_stop
    /\ Created = {1}
    /\ is_alive(1)

(* C25 for two sessions whose calls overlap: at most one thread executes   *)
(* _monitor_loop.                                                          *)
C25_OneLoopOverlapping == Cardinality(Running) <= 1

----------------------------------------------------------------------------
\* no call of start_monitoring or stop_monitoring is in progress
NoCallInProgress == \A c \in Sessions : caller[c].pc = "idle"

\* the call that returned last is a start_monitoring that was entered after
\* a stop_monitoring had returned, and no call has been entered since
StartedAfterStop ==
    /\ mcalls.last = "start_monitoring"
    /\ mcalls.after_stop
    /\ NoCallInProgress

(* C26: once a start_monitoring entered after a completed stop_monitoring  *)
(* has returned, and until the next call, a thread is running the loop and *)
(* is_monitoring_active() is True.                                         *)
C26_StartRestarts == StartedAfterStop => is_monitoring_active

(* C26 for a start_monitoring that finds no thread alive: the call creates *)
(* one and clears the event.                                               *)
C26_StartWhenDead ==
    [][\A c \in Sessions :
          (caller[c].pc = "s30" /\ caller'[c].pc = "idle")
             => is_monitoring_active']_vars

\* the monitor has been restarted after a stop that its thread had observed
C26_Restarted ==
    /\ StartedAfterStop
    /\ Cardinality(Created) = 2
    /\ is_monitoring_active

----------------------------------------------------------------------------
C27_StopEndsLoopLockFree ==
    \A m \in LoopThreads :
        (stop_event /\ is_alive(m)) ~> (~is_alive(m) \/ ~LockFree)

(* C27, the first half: with the event set no cycle is started, and a wait *)
(* returns at once: a waiting thread's next step takes it to line 43, its  *)
(* step after that ends it.                                                *)
C27_NoFurtherCycle ==
    [][\A m \in LoopThreads :
          /\ (stop_event /\ stop_event' /\ loop[m].pc = "l43")
                => loop'[m].pc \in {"l43", "dead"}
          /\ (stop_event /\ loop[m].pc \in Waits)
                => loop'[m].pc \in Waits \cup {"l43"}]_vars

\* a thread has exited after a stop_monitoring
C27_Exited ==
    /\ stop_event
    /\ \E m \in LoopThreads : loop[m].pc = "dead"
    /\ fetches.n >= 1

----------------------------------------------------------------------------
\* the step is a loop thread's lines 48-49
LoopPublishes == \E m \in LoopThreads : loop[m].pc = "l48" /\ loop'[m].pc = "l61"

(* C28: the published price is written by the monitor's loop alone: every  *)
(* step that changes last_price is a loop thread's step at lines 48-49.    *)
C28_SingleWriter == [][last_price' # last_price => LoopPublishes]_vars

(* C28 for the calls the loop makes itself: a step that is not a step of   *)
(* force_price_update leaves last_price alone or is the loop's.            *)
C28_LoopOrForced ==
    [][last_price' # last_price => (LoopPublishes \/ fg.pc = "f151")]_vars

\* the loop has published a price and no force_price_update has been made
C28_LoopPublished ==
    /\ last_price # None
    /\ ~fetches.forced

----------------------------------------------------------------------------
\* offer['total_usdc'] is the offer's quantity times its price
NotionalOf(o) == o.total_usdc = o.sol_amount * o.price_per_sol

(* C31: in every state every offer's total_usdc equals its sol_amount      *)
(* times its price_per_sol.                                                *)
C31_NotionalOfQuantity == \A i \in DOMAIN offers : NotionalOf(offers[i])

(* C31 for the offers no successful execute_match has named: add_offer     *)
(* sets the notional, and it still holds when add_offer returns.           *)
C31_NotionalAtAdd ==
    [][\A t \in Threads, ty \in OfferTypeArgs, a \in AmountArgs, p \in PriceArgs :
          add_offer(t, ty, a, p) => NotionalOf(offers'[next_id])]_vars

\* an offer was added with a notional, and a quantity, other than 0
C31_Added ==
    \E i \in DOMAIN offers :
        offers[i].total_usdc > 0 /\ NotionalOf(offers[i])

----------------------------------------------------------------------------
\* thread m passes lines 64-69 in this step: the cycle is counted
CountsCycle(m) == loop[m].pc = "l64" /\ loop'[m].pc # "l64"

(* C32: the loop fetches the market data in a cycle exactly when that      *)
(* cycle is the 5th, 10th, ... of the cycles whose price fetch returned, a *)
(* price or None.                                                          *)
C32_MarketEveryFifth ==
    [][\A m \in LoopThreads :
          /\ CountsCycle(m) => (loop'[m].pc = "l71" <=> fetches.cycles % 5 = 0)
          /\ (loop[m].pc # "l71" /\ loop'[m].pc = "l71") => CountsCycle(m)]_vars

\* the market data are being fetched in the 10th cycle, the price fetch of
\* which returned None, after a stop and a second start
C32_TenthCycle ==
    \E m \in LoopThreads :
        /\ loop[m].pc = "l71"
        /\ fetches.cycles = 10
        /\ fetches.fails >= 1
        /\ Cardinality(Created) = 2

(* C32 counting also the cycles whose price fetch raised: those end in the *)
(* handler of line 81 and are not counted.                                 *)
C32_CountingRaised ==
    [][\A m \in LoopThreads :
          CountsCycle(m) => (loop'[m].pc = "l71" <=> fetches.n % 5 = 0)]_vars

----------------------------------------------------------------------------
\* the offers a and b differ in the fields `fields` at most
SameBut(a, b, fields) ==
    \A f \in (DOMAIN a) \cup (DOMAIN b) :
        f \notin fields => (f \in DOMAIN a /\ f \in DOMAIN b /\ a[f] = b[f])

\* this step leaves alone next_id, the set of ids in the index, every offer
\* but those of `ids`, and where those others stand in the two lists
FrameOf(ids) ==
    /\ next_id' = next_id
    /\ DOMAIN offers' = DOMAIN offers
    /\ \A i \in DOMAIN offers \ ids :
          /\ offers'[i] = offers[i]
          /\ Contains(active_offers', i) <=> Contains(active_offers, i)
          /\ Contains(completed_offers', i) <=> Contains(completed_offers, i)

(* C33: execute_match changes the sol_amount and the status of the two     *)
(* offers it names and nothing else of them, cancel_offer the status of    *)
(* its one offer and nothing else of it; both leave every other offer,     *)
(* the ids in the index and next_id as they were.                          *)
C33_MutatorsFrame ==
    [][/\ Returned("execute_match") =>
            LET legs == {last'.args[1], last'.args[2]}
            IN  /\ FrameOf(legs)
                /\ \A i \in legs \cap DOMAIN offers :
                      SameBut(offers[i], offers'[i], {"sol_amount", "status"})
       /\ Returned("cancel_offer") =>
            LET i == last'.args[1]
            IN  /\ FrameOf({i})
                /\ i \in DOMAIN offers =>
                      SameBut(offers[i], offers'[i], {"status"})]_vars

\* an execute_match of two offers has taken a quantity from both and
\* completed one of them
C33_Witness ==
    /\ last.op = "execute_match"
    /\ last.ret = "True"
    /\ last.args[1] # last.args[2]
    /\ offers[last.args[1]].status = "COMPLETED"
    /\ offers[last.args[2]].status = "ACTIVE"
    /\ offers[last.args[2]].sol_amount = 50

----------------------------------------------------------------------------
\* stop_monitoring has returned and start_monitoring has not been called
\* since
Stopped == mcalls.last = "stop_monitoring" /\ NoCallInProgress

\* the step is a loop thread's scan of line 61, which emits the opportunities
LoopScans == \E m \in LoopThreads : loop[m].pc = "l61" /\ loop'[m].pc = "l64"

(* C34: once stop_monitoring has returned, and until start_monitoring is   *)
(* called, no loop thread writes last_price and none runs the scan that    *)
(* emits the opportunities.                                                *)
C34_SilentAfterStop == [][Stopped => ~LoopPublishes /\ ~LoopScans]_vars

(* C34 for the fetches: once stop_monitoring has returned, and until       *)
(* start_monitoring is called, no loop thread starts a fetch.              *)
C34_NoFetchAfterStop ==
    [][Stopped => \A m \in LoopThreads :
                     ~(loop[m].pc = "l43" /\ loop'[m].pc = "l46")]_vars

\* stop_monitoring has returned with the thread ended, a price published
C34_StoppedDead ==
    /\ Stopped
    /\ last_price # None
    /\ \A m \in LoopThreads : ~is_alive(m)
    /\ Created # {}

----------------------------------------------------------------------------
\* the two lists and the statuses agree: active_offers holds the ACTIVE
\* offers, completed_offers the COMPLETED ones, no id is in both
ListsAgree ==
    /\ \A i \in DOMAIN offers :
          /\ Contains(active_offers, i) <=> offers[i].status = "ACTIVE"
          /\ Contains(completed_offers, i) <=> offers[i].status = "COMPLETED"
    /\ \A k \in 1..Len(active_offers) : active_offers[k] \in DOMAIN offers
    /\ \A k \in 1..Len(completed_offers) : completed_offers[k] \in DOMAIN offers

(* C35: every execute_match call returns True or False, whatever its       *)
(* arguments, with the lock released and the two lists and the statuses in *)
(* agreement.                                                              *)
C35_ExecuteNeverRaises ==
    [][Returned("execute_match") =>
          /\ last'.ret \in {"True", "False"}
          /\ lock' = NoThread
          /\ ListsAgree']_vars

(* C35 without the result: however execute_match ends, the lock is         *)
(* released and the two lists and the statuses agree.                      *)
C35_ExecuteLeavesConsistent ==
    [][Returned("execute_match") => lock' = NoThread /\ ListsAgree']_vars

(* C35 for two different ids: the call returns True or False.              *)
C35_TwoIdsNeverRaise ==
    [][(Returned("execute_match") /\ last'.args[1] # last'.args[2])
          => last'.ret \in {"True", "False"}]_vars

\* an execute_match of two offers has filled both completely
C35_BothFilled ==
    /\ last.op = "execute_match"
    /\ last.ret = "True"
    /\ last.args[1] # last.args[2]
    /\ completed_offers = <<last.args[1], last.args[2]>>

----------------------------------------------------------------------------
(* C36: an execute_match that returns True was given two different ids,    *)
(* buy_id that of a BUY offer and sell_id that of a SELL offer.            *)
C36_TrueOnlyForBuySell ==
    [][(Returned("execute_match") /\ last'.ret = "True") =>
          LET b == last'.args[1]
              s == last'.args[2]
          IN  /\ b # s
              /\ b \in DOMAIN offers /\ offers[b].type = "BUY"
              /\ s \in DOMAIN offers /\ offers[s].type = "SELL"]_vars

(* C36, what the guard of lines 144-152 does ensure: an execute_match that *)
(* returns True was given the ids of two offers that were ACTIVE.          *)
C36_TrueOnlyForActive ==
    [][(Returned("execute_match") /\ last'.ret = "True") =>
          \A i \in {last'.args[1], last'.args[2]} :
              i \in DOMAIN offers /\ offers[i].status = "ACTIVE"]_vars

\* an execute_match of a BUY and a SELL has returned True
C36_BuySellMatched ==
    /\ last.op = "execute_match"
    /\ last.ret = "True"
    /\ last.args[1] # last.args[2]
    /\ offers[last.args[1]].type = "BUY"
    /\ offers[last.args[2]].type = "SELL"

----------------------------------------------------------------------------
\* no element stands twice in seq
NoDuplicates(seq) == \A i, j \in 1..Len(seq) : i # j => seq[i] # seq[j]

\* the elements of seq
Elements(seq) == {seq[k] : k \in 1..Len(seq)}

CompletedIds == {i \in DOMAIN offers : offers[i].status = "COMPLETED"}

(* C37: active_offers and completed_offers hold no id twice, share no id   *)
(* and hold only ids of the index; completed_offers holds exactly the ids  *)
(* of the COMPLETED offers, so its length, the completed_offers_count of   *)
(* get_pool_stats, is the number of COMPLETED offers.                      *)
C37_IndexConsistent ==
    /\ NoDuplicates(active_offers)
    /\ NoDuplicates(completed_offers)
    /\ Elements(active_offers) \cap Elements(completed_offers) = {}
    /\ Elements(active_offers) \cup Elements(completed_offers) \subseteq DOMAIN offers
    /\ Elements(completed_offers) = CompletedIds
    /\ stats_from(active_list).completed_offers_count = Cardinality(CompletedIds)

\* one offer has been completed by an execute_match, the other is ACTIVE
C37_Witness ==
    /\ last.op = "execute_match"
    /\ Len(completed_offers) = 1
    /\ Len(active_offers) = 1
    /\ Cardinality(DOMAIN offers) = 2

----------------------------------------------------------------------------
(* C38: when every add_offer and every execute_match is called with a      *)
(* quantity > 0, every ACTIVE offer has a quantity > 0, every offer of a   *)
(* quantity <= 0 is COMPLETED, and every offer in the list that            *)
(* get_active_offers has returned (the list the monitor's scan works on)   *)
(* has a quantity > 0.                                                     *)
C38_ActiveHasQuantity ==
    /\ \A i \in DOMAIN offers :
          /\ offers[i].status = "ACTIVE" => offers[i].sol_amount > 0
          /\ offers[i].sol_amount <= 0 => offers[i].status = "COMPLETED"
    /\ \A k \in 1..Len(active_list) : offers[active_list[k]].sol_amount > 0
    /\ last.op = "get_active_offers" /\ last.ret # "running" =>
          \A k \in 1..Len(last.list) : offers[last.list[k]].sol_amount > 0

\* an execute_match has taken the whole quantity of one offer, which is
\* COMPLETED with quantity 0, and left 50 of the other, which is ACTIVE
C38_Witness ==
    /\ last.op = "execute_match"
    /\ \E i, j \in DOMAIN offers :
          /\ offers[i].sol_amount = 0 /\ offers[i].status = "COMPLETED"
          /\ offers[j].sol_amount = 50 /\ offers[j].status = "ACTIVE"

============================================================================
